---- MODULE Spec2Model ----
(***************************************************************************)
(* Model of the burrow batch executor (execution/execution.go): Execute,   *)
(* Reset and Commit over a block cache, an event cache and a backing       *)
(* State, with the four transaction families SendTx, CallTx, NameTx and    *)
(* PermissionsTx.                                                          *)
(***************************************************************************)
EXTENDS Integers, Sequences, FiniteSets, TLC

\* ------------------------------------------------------------------------
\* Bounds of the model
\* ------------------------------------------------------------------------

\* Width in bits of the unsigned integers (uint64 in the code, scaled down).
Width == 4
\* Number of writes to the batch in a behaviour: transactions submitted to
\* Execute and direct calls of UpdateAccount, RemoveAccount and SetStorage.
MaxOps == 2
\* Number of Resets, Commits and new blocks in a behaviour.
MaxCtl == 2
\* Largest value of the second of two name extensions that are compared with
\* a single one.
MaxExtension == 2

Mod == 2 ^ Width
MaxU == Mod - 1
Half == Mod \div 2

\* ------------------------------------------------------------------------
\* Addresses, keys, permission flags
\* ------------------------------------------------------------------------

GlobalPermissionsAddress == 0
\* Addresses for which a private key is known.
Users == {1, 2, 3}
\* A contract account present in the genesis state.
GenesisContracts == {4}
\* Native contracts of the VM (reserved addresses).
NativeContracts == {5}


\* The address of a contract created by creator at the given sequence.
NewContractAddress(creator, sequence) == 10 * creator + sequence

\* A creation increments the creator's sequence first, so the sequences that
\* derive an address are 1..MaxOps; accounts 1 and 2 are funded at genesis.
ContractAddrs == {NewContractAddress(u, s) : u \in {1, 2}, s \in 1..MaxOps}
AllAddr == {GlobalPermissionsAddress} \cup Users \cup GenesisContracts
             \cup NativeContracts \cup ContractAddrs

\* A public key is identified by the negation of the address it derives to.
NoKey == 0
KeyOf(addr) == 0 - addr
PubKeyAddress(key) == 0 - key

BaseFlags == {"Send", "Call", "CreateContract", "CreateAccount", "Name"}
ModFlags == {"HasBase", "SetBase", "UnsetBase", "SetGlobal",
             "HasRole", "AddRole", "RemoveRole"}
AllPermFlags == BaseFlags \cup ModFlags

ZeroAccountPermissions == [perms |-> {}, setBit |-> {}, roles |-> {}]

NoAcc == [exists |-> FALSE, address |-> 0, balance |-> 0, sequence |-> 0,
          pubKey |-> NoKey, code |-> 0, permissions |-> ZeroAccountPermissions]

ConcreteAccount(addr, bal, seq, key, code, perms) ==
  [exists |-> TRUE, address |-> addr, balance |-> bal, sequence |-> seq,
   pubKey |-> key, code |-> code, permissions |-> perms]

\* Account mutators (account package): unsigned arithmetic of width Width.
AddToBalance(acc, amount) == [acc EXCEPT !.balance = (@ + amount) % Mod]
SubtractFromBalance(acc, amount) == [acc EXCEPT !.balance = (@ - amount) % Mod]
IncSequence(acc) == [acc EXCEPT !.sequence = (@ + 1) % Mod]

\* Error values ("" is a nil error).
OK == ""
\* Not an error value: the call does not return, it panics.
Panic == "panic"
ErrTxInvalidAddress == "InvalidAddress"
ErrTxDuplicateAddress == "DuplicateAddress"
ErrTxInvalidAmount == "InvalidAmount"
ErrTxInsufficientFunds == "InsufficientFunds"
ErrTxInvalidSignature == "InvalidSignature"
ErrTxInvalidSequence == "InvalidSequence"
ErrTxUnknownPubKey == "UnknownPubKey"
ErrTxInvalidPubKey == "InvalidPubKey"
ErrPermission == "PermissionDenied"
ErrNameTooShort == "NameRegistrationTooShort"
ErrNameNotOwned == "NameNotOwned"
ErrInvalidString == "InvalidString"
ErrNativeContract == "NativeContractCallViaCallTx"
ErrPermMutation == "PermissionMutationRejected"
ErrNoPermAccount == "NoPermissionsAccount"

\* ------------------------------------------------------------------------
\* Transactions
\* ------------------------------------------------------------------------

TxInput(addr, amount, sequence, sig, key) ==
  [address |-> addr, amount |-> amount, sequence |-> sequence,
   signature |-> sig, pubKey |-> key]
TxOutput(addr, amount) == [address |-> addr, amount |-> amount]

NoInput == TxInput(0, 0, 0, "empty", NoKey)
NoPermArgs == [permFlag |-> "", address |-> 0, permission |-> "",
               value |-> FALSE, role |-> ""]

\* One record shape for the four families; a family leaves the fields it
\* does not have at their zero values.  callee = 0 is a nil CallTx.Address.
Tx(type, inputs, outputs, callee, fee, name, data, permArgs) ==
  [type |-> type, inputs |-> inputs, outputs |-> outputs, callee |-> callee,
   fee |-> fee, name |-> name, data |-> data, permArgs |-> permArgs]

SendTx(inputs, outputs) == Tx("SendTx", inputs, outputs, 0, 0, "", "", NoPermArgs)
CallTx(input, callee, fee, data) ==
  Tx("CallTx", <<input>>, <<>>, callee, fee, "", data, NoPermArgs)
NameTx(input, name, data, fee) ==
  Tx("NameTx", <<input>>, <<>>, 0, fee, name, data, NoPermArgs)
PermissionsTx(input, permArgs) ==
  Tx("PermissionsTx", <<input>>, <<>>, 0, 0, "", "", permArgs)
NoTx == Tx("", <<>>, <<>>, 0, 0, "", "", NoPermArgs)

\* The types of transaction that the switch of Execute has a case for.
TxTypes == {"SendTx", "CallTx", "NameTx", "PermissionsTx"}

\* A transaction of another type: the case of a BondTx is commented out, so
\* Execute takes it to the default of its switch.
BondTx(inputs, unbondTo) ==
  Tx("BondTx", inputs, unbondTo, 0, 0, "", "", NoPermArgs)

\* ------------------------------------------------------------------------
\* Permission engine
\* ------------------------------------------------------------------------

\* BasePermissions.Get: "unset" stands for ErrValueNotSet.
BaseGet(base, perm) ==
  IF perm \notin base.setBit THEN "unset"
  ELSE IF perm \in base.perms THEN "true" ELSE "false"

BaseSet(p, perm, value) ==
  [p EXCEPT !.setBit = @ \cup {perm},
            !.perms = IF value THEN @ \cup {perm} ELSE @ \ {perm}]

BaseUnset(p, perm) == [p EXCEPT !.setBit = @ \ {perm}]

\* A variant of HasPermission that reads the account's stored bit whether
\* or not the flag is set in its mask.
HasPermissionIgnoringMask(getter, acc, perm) ==
  IF perm \in acc.permissions.perms THEN "true" ELSE "false"

\* A variant of HasPermission that grants every permission.
HasPermissionGranted(getter, acc, perm) == "true"

\* Get permission on an account or fall back to global value: "true",
\* "false", or Panic.  A flag above AllPermFlags panics; a flag that is not
\* set on the account is looked up on the global permissions account, read
\* through the account getter, with no getter to fall back to, and panics
\* when it is not set there either.
HasPermission(getter, acc, perm) ==
  IF perm \notin AllPermFlags THEN Panic
  ELSE LET v == BaseGet(acc.permissions, perm) IN
       IF v = "unset"
       THEN LET g == BaseGet(getter[GlobalPermissionsAddress].permissions, perm) IN
            IF g = "unset" THEN Panic ELSE g
       ELSE v

\* The order in which a range over the map accs visits its addresses is not
\* specified: here the address `first` comes first when the map holds it,
\* and the others follow by ascending address.
RECURSIVE Ascending(_)
Ascending(addrs) ==
  IF addrs = {} THEN <<>>
  ELSE LET a == CHOOSE x \in addrs : \A y \in addrs : x <= y IN
       <<a>> \o Ascending(addrs \ {a})
RangeOrder(accs, first) ==
  IF first \in DOMAIN accs
  THEN <<first>> \o Ascending(DOMAIN accs \ {first})
  ELSE Ascending(DOMAIN accs)

\* A variant that is satisfied by one account holding the permission.
hasCreateAccountPermissionOfSome(getter, accs, first) ==
  IF \E a \in DOMAIN accs : HasPermission(getter, accs[a], "CreateAccount") = "true"
  THEN "true" ELSE "false"

\* for _, acc := range accs: the first account met that does not hold the
\* permission ends the loop, with "false" or with the panic of HasPermission.
RECURSIVE allHavePermission(_, _, _, _, _)
allHavePermission(getter, accs, perm, order, i) ==
  IF i > Len(order) THEN "true"
  ELSE LET v == HasPermission(getter, accs[order[i]], perm) IN
       IF v # "true" THEN v
       ELSE allHavePermission(getter, accs, perm, order, i + 1)

\* accs is a map from addresses to mutable accounts.
hasSendPermission(getter, accs, first) ==
  allHavePermission(getter, accs, "Send", RangeOrder(accs, first), 1)

hasCreateAccountPermission(getter, accs, first) ==
  allHavePermission(getter, accs, "CreateAccount", RangeOrder(accs, first), 1)

hasNamePermission(getter, acc) == HasPermission(getter, acc, "Name")
hasCallPermission(getter, acc) == HasPermission(getter, acc, "Call")
hasCreateContractPermission(getter, acc) ==
  HasPermission(getter, acc, "CreateContract")

\* ------------------------------------------------------------------------
\* Validation kernel
\* ------------------------------------------------------------------------

\* The result carries the account and the input as the call leaves them.
\* A variant of checkInputPubKey that leaves an account without its key.
checkInputPubKeyUnbound(acc, in) ==
  IF acc.pubKey = NoKey
  THEN IF in.pubKey = NoKey
       THEN [err |-> ErrTxUnknownPubKey, acc |-> acc, in |-> in]
       ELSE IF PubKeyAddress(in.pubKey) # acc.address
       THEN [err |-> ErrTxInvalidPubKey, acc |-> acc, in |-> in]
       ELSE [err |-> OK, acc |-> acc, in |-> in]
  ELSE [err |-> OK, acc |-> acc, in |-> [in EXCEPT !.pubKey = NoKey]]

checkInputPubKey(acc, in) ==
  IF acc.pubKey = NoKey
  THEN IF in.pubKey = NoKey
       THEN [err |-> ErrTxUnknownPubKey, acc |-> acc, in |-> in]
       ELSE IF PubKeyAddress(in.pubKey) # acc.address
       THEN [err |-> ErrTxInvalidPubKey, acc |-> acc, in |-> in]
       ELSE [err |-> OK, acc |-> [acc EXCEPT !.pubKey = in.pubKey], in |-> in]
  ELSE [err |-> OK, acc |-> acc, in |-> [in EXCEPT !.pubKey = NoKey]]

\* TxInput.ValidateBasic
InputValidateBasic(in) ==
  IF in.address \notin AllAddr THEN ErrTxInvalidAddress
  ELSE IF in.amount = 0 THEN ErrTxInvalidAmount
  ELSE IF in.signature = "empty" THEN ErrTxInvalidSignature
  ELSE IF in.pubKey # NoKey /\ PubKeyAddress(in.pubKey) # in.address
  THEN ErrTxInvalidPubKey
  ELSE OK

\* TxOutput.ValidateBasic
OutputValidateBasic(out) ==
  IF out.address \notin AllAddr THEN ErrTxInvalidAddress
  ELSE IF out.amount = 0 THEN ErrTxInvalidAmount
  ELSE OK

\* PublicKey.VerifyBytes: the signature "ok" is the one made over the sign
\* bytes with the private key of the input's address.
VerifyBytes(key, in) ==
  key # NoKey /\ in.signature = "ok" /\ PubKeyAddress(key) = in.address

\* The fields of the ErrTxInvalidSequence that validateInput returns.
ErrTxInvalidSequenceFields(acc, in) ==
  [Got |-> in.sequence, Expected |-> (acc.sequence + 1) % Mod]

\* A variant of validateInput without the check of the balance.
validateInputIgnoringFunds(acc, in) ==
  LET basic == InputValidateBasic(in) IN
  IF basic # OK THEN basic
  ELSE IF ~VerifyBytes(acc.pubKey, in) THEN ErrTxInvalidSignature
  ELSE IF (acc.sequence + 1) % Mod # in.sequence THEN ErrTxInvalidSequence
  ELSE OK

\* A variant of validateInput that checks the balance before the sequence.
validateInputFundsFirst(acc, in) ==
  LET basic == InputValidateBasic(in) IN
  IF basic # OK THEN basic
  ELSE IF ~VerifyBytes(acc.pubKey, in) THEN ErrTxInvalidSignature
  ELSE IF acc.balance < in.amount THEN ErrTxInsufficientFunds
  ELSE IF (acc.sequence + 1) % Mod # in.sequence THEN ErrTxInvalidSequence
  ELSE OK

validateInput(acc, in) ==
  LET basic == InputValidateBasic(in) IN
  IF basic # OK THEN basic
  ELSE IF ~VerifyBytes(acc.pubKey, in) THEN ErrTxInvalidSignature
  ELSE IF (acc.sequence + 1) % Mod # in.sequence THEN ErrTxInvalidSequence
  ELSE IF acc.balance < in.amount THEN ErrTxInsufficientFunds
  ELSE OK

\* The sum of the input amounts, in unsigned arithmetic; the first input
\* that fails validation ends the loop.
RECURSIVE validateInputsFrom(_, _, _, _)
validateInputsFrom(accs, ins, i, total) ==
  IF i > Len(ins) THEN [err |-> OK, total |-> total]
  ELSE IF ins[i].address \notin DOMAIN accs THEN [err |-> Panic, total |-> total]
  ELSE LET err == validateInput(accs[ins[i].address], ins[i]) IN
       IF err # OK THEN [err |-> err, total |-> total]
       ELSE validateInputsFrom(accs, ins, i + 1, (total + ins[i].amount) % Mod)

validateInputs(accs, ins) == validateInputsFrom(accs, ins, 1, 0)

RECURSIVE validateOutputsFrom(_, _, _)
validateOutputsFrom(outs, i, total) ==
  IF i > Len(outs) THEN [err |-> OK, total |-> total]
  ELSE LET err == OutputValidateBasic(outs[i]) IN
       IF err # OK THEN [err |-> err, total |-> 0]
       ELSE validateOutputsFrom(outs, i + 1, (total + outs[i].amount) % Mod)

validateOutputs(outs) == validateOutputsFrom(outs, 1, 0)

\* The accounts of the map are adjusted in place; the result is the map as
\* the call leaves it and whether the call panicked: on an input whose
\* account is not in the map, or whose account holds less than its amount.
RECURSIVE adjustByInputsFrom(_, _, _)
adjustByInputsFrom(accs, ins, i) ==
  IF i > Len(ins) THEN [panic |-> FALSE, accs |-> accs]
  ELSE LET a == ins[i].address IN
       IF a \notin DOMAIN accs THEN [panic |-> TRUE, accs |-> accs]
       ELSE IF accs[a].balance < ins[i].amount THEN [panic |-> TRUE, accs |-> accs]
       ELSE adjustByInputsFrom(
              [accs EXCEPT ![a] = IncSequence(SubtractFromBalance(@, ins[i].amount))],
              ins, i + 1)

adjustByInputs(accs, ins) == adjustByInputsFrom(accs, ins, 1)

\* As adjustByInputs; the call panics on an output whose account is not in
\* the map.
RECURSIVE adjustByOutputsFrom(_, _, _)
adjustByOutputsFrom(accs, outs, i) ==
  IF i > Len(outs) THEN [panic |-> FALSE, accs |-> accs]
  ELSE LET a == outs[i].address IN
       IF a \notin DOMAIN accs THEN [panic |-> TRUE, accs |-> accs]
       ELSE adjustByOutputsFrom(
              [accs EXCEPT ![a] = AddToBalance(@, outs[i].amount)], outs, i + 1)

adjustByOutputs(accs, outs) == adjustByOutputsFrom(accs, outs, 1)

\* The accounts of the inputs, keyed by address, each with its public key
\* bound, and the inputs as checkInputPubKey leaves them.
RECURSIVE getInputsFrom(_, _, _, _)
getInputsFrom(getter, ins, i, accs) ==
  IF i > Len(ins) THEN [err |-> OK, accs |-> accs, ins |-> ins]
  ELSE LET in == ins[i] IN
       IF in.address \in DOMAIN accs
       THEN [err |-> ErrTxDuplicateAddress, accs |-> accs, ins |-> ins]
       ELSE IF in.address \notin AllAddr \/ ~getter[in.address].exists
       THEN [err |-> ErrTxInvalidAddress, accs |-> accs, ins |-> ins]
       ELSE LET r == checkInputPubKey(getter[in.address], in) IN
            IF r.err # OK THEN [err |-> r.err, accs |-> accs, ins |-> ins]
            ELSE getInputsFrom(getter, [ins EXCEPT ![i] = r.in], i + 1,
                               accs @@ (in.address :> r.acc))

getInputs(getter, ins) == getInputsFrom(getter, ins, 1, <<>>)

RECURSIVE getOrMakeOutputsFrom(_, _, _, _, _, _)
getOrMakeOutputsFrom(getter, accs, outs, i, checkedCreatePerms, first) ==
  IF i > Len(outs) THEN [err |-> OK, accs |-> accs]
  ELSE LET out == outs[i] IN
       IF out.address \in DOMAIN accs
       THEN [err |-> ErrTxDuplicateAddress, accs |-> accs]
       ELSE IF out.address \in AllAddr /\ getter[out.address].exists
       THEN getOrMakeOutputsFrom(getter, accs @@ (out.address :> getter[out.address]),
                                 outs, i + 1, checkedCreatePerms, first)
       ELSE IF ~checkedCreatePerms
               /\ hasCreateAccountPermission(getter, accs, first) = Panic
       THEN [err |-> Panic, accs |-> accs]
       ELSE IF ~checkedCreatePerms
               /\ hasCreateAccountPermission(getter, accs, first) = "false"
       THEN [err |-> ErrPermission, accs |-> accs]
       ELSE getOrMakeOutputsFrom(
              getter,
              accs @@ (out.address :>
                         ConcreteAccount(out.address, 0, 0, NoKey, 0,
                                         ZeroAccountPermissions)),
              outs, i + 1, TRUE, first)

getOrMakeOutputs(getter, accs, outs, first) ==
  getOrMakeOutputsFrom(getter, accs, outs, 1, FALSE, first)

\* ------------------------------------------------------------------------
\* Events
\* ------------------------------------------------------------------------

Event(kind, addr, name, flag, exception) ==
  [kind |-> kind, addr |-> addr, name |-> name, flag |-> flag,
   exception |-> exception]
EventStringAccInput(addr) == Event("AccInput", addr, "", "", "")
EventStringAccOutput(addr) == Event("AccOutput", addr, "", "", "")
EventStringNameReg(name) == Event("NameReg", 0, name, "", "")
EventStringPermissions(flag) == Event("Permissions", 0, "", flag, "")
\* The event the VM fires for a call.
EventStringAccCall == Event("AccCall", 0, "", "", "")
WithException(ev, exception) == [ev EXCEPT !.exception = exception]

\* ------------------------------------------------------------------------
\* Execute, one transaction family at a time.  A result is the error
\* returned and the writes made to the block cache and the event cache up to
\* the return: accounts (UpdateAccount calls, in order), storage (slots
\* written), names (UpdateNameRegEntry and RemoveNameRegEntry calls, in
\* order) and events (Fire calls, in order).
\* ------------------------------------------------------------------------

Result(err, accounts, storage, names, events, vmRan, vmOK) ==
  [err |-> err, accounts |-> accounts, storage |-> storage, names |-> names,
   events |-> events, vmRan |-> vmRan, vmOK |-> vmOK]

Failure(err) == Result(err, <<>>, {}, <<>>, <<>>, FALSE, FALSE)

\* The accounts of a map as a sequence, by ascending address.
RECURSIVE AccountsOf(_, _)
AccountsOf(accs, addrs) ==
  IF addrs = {} THEN <<>>
  ELSE LET a == CHOOSE x \in addrs : \A y \in addrs : x <= y IN
       <<accs[a]>> \o AccountsOf(accs, addrs \ {a})

\* A failed permission check: the error of a permission that is not held,
\* or the panic of HasPermission.
PermissionFailure(has) ==
  IF has = Panic THEN Failure(Panic) ELSE Failure(ErrPermission)

\* Execute reads exe.blockCache three times: atInputs, atPermission and
\* atOutputs are the cache's accounts as getInputs, hasSendPermission and
\* getOrMakeOutputs find them.  `first` is the address that the ranges over
\* the accounts map visit first.
executeSendTx(atInputs, atPermission, atOutputs, tx, first) ==
  LET ins == getInputs(atInputs, tx.inputs) IN
  IF ins.err # OK THEN Failure(ins.err)
  ELSE LET send == hasSendPermission(atPermission, ins.accs, first) IN
  IF send # "true" THEN PermissionFailure(send)
  ELSE LET outs == getOrMakeOutputs(atOutputs, ins.accs, tx.outputs, first) IN
  IF outs.err # OK THEN Failure(outs.err)
  ELSE LET inTotal == validateInputs(outs.accs, ins.ins) IN
  IF inTotal.err # OK THEN Failure(inTotal.err)
  ELSE LET outTotal == validateOutputs(tx.outputs) IN
  IF outTotal.err # OK THEN Failure(outTotal.err)
  ELSE IF outTotal.total > inTotal.total THEN Failure(ErrTxInsufficientFunds)
  ELSE LET debited == adjustByInputs(outs.accs, ins.ins) IN
  IF debited.panic THEN Failure(Panic)
  ELSE LET credited == adjustByOutputs(debited.accs, tx.outputs) IN
  IF credited.panic THEN Failure(Panic)
  ELSE LET adjusted == credited.accs IN
       Result(OK, AccountsOf(adjusted, DOMAIN adjusted), {}, <<>>,
              [i \in 1..Len(tx.inputs) |-> EventStringAccInput(tx.inputs[i].address)]
                \o [i \in 1..Len(tx.outputs) |-> EventStringAccOutput(tx.outputs[i].address)],
              FALSE, FALSE)

\* ------------------------------------------------------------------------
\* The VM (evm package), as the executor uses it
\* ------------------------------------------------------------------------

RegisteredNativeContract(addr) == addr \in NativeContracts

\* permission.GlobalAccountPermissions
GlobalAccountPermissions(getter) == getter[GlobalPermissionsAddress].permissions

\* evm.DeriveNewAccount: the creator's sequence is incremented and the new
\* account sits at the address derived from the creator and its sequence.
DeriveNewAccountCaller(creator) == IncSequence(creator)
DeriveNewAccount(creator, permissions) ==
  ConcreteAccount(NewContractAddress(creator.address, creator.sequence),
                  0, 0, NoKey, 0, permissions)

\* What is not decided by the transaction and the executor's state: what a
\* run of the VM does (succeed or fail, return bytes, write a slot, fire
\* events into the event cache it was given) and which address the ranges
\* over a map of accounts visit first.  ok = FALSE is any VM error (out of
\* gas, invalid opcode, ...).
Outcome(ok, store, events, first) ==
  [ok |-> ok, ret |-> 1, store |-> store, events |-> events, first |-> first]
VMOutcomes ==
  {Outcome(FALSE, 0, <<EventStringAccCall>>, 0), Outcome(TRUE, 0, <<>>, 0),
   Outcome(TRUE, 1, <<EventStringAccCall>>, 0)}
NoVM == Outcome(FALSE, 0, <<>>, 0)

\* vm.Call succeeds iff the transfer is possible and the code, when there is
\* any, runs without error.
VMCallOK(caller, callee, code, value, vm) ==
  /\ caller.balance >= value
  /\ callee.balance + value <= MaxU
  /\ (code = 0 \/ vm.ok)

DataCode(data) == IF data = "" THEN 0 ELSE 2

\* ------------------------------------------------------------------------
\* CallTx
\* ------------------------------------------------------------------------

\* A variant of CallEvents that leaves the exception out of the events.
CallEventsWithoutException(tx, exception) ==
  <<EventStringAccInput(tx.inputs[1].address)>>
    \o (IF tx.callee # 0 THEN <<EventStringAccOutput(tx.callee)>> ELSE <<>>)

\* The events that end a CallTx in the commit path, with the text of the
\* call's error as their exception.
CallEvents(tx, exception) ==
  <<WithException(EventStringAccInput(tx.inputs[1].address), exception)>>
    \o (IF tx.callee # 0
        THEN <<WithException(EventStringAccOutput(tx.callee), exception)>>
        ELSE <<>>)

\* The commit path (runCall) after the fee has been debited: inAcc is the
\* caller as written to the block cache, outAcc the callee read before that.
\* A variant of callFailed in which the txCache is synced although the VM
\* call failed.
callFailedSyncingTxCache(tx, inAcc, txAccounts, txStorage, vmEvents) ==
  Result(OK, <<inAcc>> \o txAccounts, txStorage, <<>>,
         vmEvents \o CallEvents(tx, "VMError"), TRUE, FALSE)

\* The VM call failed: control jumps to CALL_COMPLETE past txCache.Sync, so
\* what the txCache holds (txAccounts, txStorage) is dropped and the block
\* cache keeps only the caller as debited by the fee.  The events the VM
\* fired are in the event cache already.
callFailed(tx, inAcc, txAccounts, txStorage, vmEvents) ==
  Result(OK, <<inAcc>>, {}, <<>>, vmEvents \o CallEvents(tx, "VMError"),
         TRUE, FALSE)

\* A variant of calleeHasNoCode that finds no code in any callee.
calleeNeverHasCode(createContract, outAcc) == ~createContract

\* The call is to an account that does not exist or holds no code.
calleeHasNoCode(createContract, outAcc) ==
  ~createContract /\ (~outAcc.exists \/ outAcc.code = 0)

\* A variant of callsNativeContract that lets every address through.
callsNativeContractNever(createContract, callee) == FALSE

\* The CallTx names a callee and the callee is a registered native contract.
callsNativeContract(createContract, callee) ==
  ~createContract /\ RegisteredNativeContract(callee)

runCallPath(stateGetter, tx, inAcc, outAcc, value, vm) ==
  LET createContract == tx.callee = 0 IN
  IF calleeHasNoCode(createContract, outAcc)
  THEN Result(OK, <<inAcc>>, {}, <<>>, CallEvents(tx, ErrTxInvalidAddress),
              FALSE, FALSE)
  ELSE LET caller == IF createContract THEN DeriveNewAccountCaller(inAcc) ELSE inAcc
           callee == IF createContract
                     THEN DeriveNewAccount(inAcc, GlobalAccountPermissions(stateGetter))
                     ELSE outAcc
           code == IF createContract THEN DataCode(tx.data) ELSE callee.code
           ret == IF code = 0 THEN 0 ELSE vm.ret
           caller2 == SubtractFromBalance(caller, value)
           callee1 == AddToBalance(callee, value)
           callee2 == IF createContract THEN [callee1 EXCEPT !.code = ret]
                      ELSE callee1
           \* txCache holds one account per address: the callee's entry
           \* replaces the caller's when both have the same address.
           synced == IF caller.address = callee.address THEN <<callee2>>
                     ELSE <<caller2, callee2>>
           writes == IF code # 0 /\ vm.store # 0
                     THEN {<<callee.address, vm.store>>} ELSE {}
       IN
       IF ~VMCallOK(caller, callee, code, value, vm)
       THEN callFailed(tx, inAcc, synced, writes, vm.events)
       ELSE Result(OK, <<inAcc>> \o synced, writes, <<>>,
                   vm.events \o CallEvents(tx, ""), TRUE, TRUE)

\* A variant of checkCallPath that leaves the value with the caller.
checkCallPathKeepingValue(tx, inAcc, value) ==
  LET inAcc2 == IF tx.callee = 0 THEN IncSequence(inAcc) ELSE inAcc
  IN Result(OK, <<inAcc, inAcc2>>, {}, <<>>, <<>>, FALSE, FALSE)

\* The check path: the VM is skipped and the caller pays the value too.
checkCallPath(tx, inAcc, value) ==
  LET paid == SubtractFromBalance(inAcc, value)
      inAcc2 == IF tx.callee = 0 THEN IncSequence(paid) ELSE paid
  IN Result(OK, <<inAcc, inAcc2>>, {}, <<>>, <<>>, FALSE, FALSE)

\* atInput, atPermission and atCallee are the accounts of exe.blockCache as
\* the reads of the caller, of the global permissions and of the callee
\* find them; stateGetter is exe.state as the creation of a contract reads
\* its global permissions.
executeCallTx(atInput, atPermission, atCallee, stateGetter, runCall, tx, vm) ==
  LET in == tx.inputs[1]
      createContract == tx.callee = 0
  IN
  IF in.address \notin AllAddr \/ ~atInput[in.address].exists
  THEN Failure(ErrTxInvalidAddress)
  ELSE LET has == IF createContract
                  THEN hasCreateContractPermission(atPermission, atInput[in.address])
                  ELSE hasCallPermission(atPermission, atInput[in.address]) IN
  IF has # "true" THEN PermissionFailure(has)
  ELSE LET pk == checkInputPubKey(atInput[in.address], in) IN
  IF pk.err # OK THEN Failure(pk.err)
  ELSE LET err == validateInput(pk.acc, pk.in) IN
  IF err # OK THEN Failure(err)
  ELSE IF in.amount < tx.fee THEN Failure(ErrTxInsufficientFunds)
  ELSE IF callsNativeContract(createContract, tx.callee)
  THEN Failure(ErrNativeContract)
  ELSE LET outAcc == IF createContract THEN NoAcc ELSE atCallee[tx.callee]
           value == in.amount - tx.fee
           inAcc == SubtractFromBalance(IncSequence(pk.acc), tx.fee)
       IN IF runCall THEN runCallPath(stateGetter, tx, inAcc, outAcc, value, vm)
          ELSE checkCallPath(tx, inAcc, value)

\* ------------------------------------------------------------------------
\* NameTx
\* ------------------------------------------------------------------------

MinNameRegistrationPeriod == 2
NameByteCostMultiplier == 1
NameBlockCostMultiplier == 1
DataLen(data) == IF data = "" THEN 0 ELSE 1
NameBaseCost(name, data) == DataLen(data) + 1
NameCostPerBlock(baseCost) ==
  NameBlockCostMultiplier * NameByteCostMultiplier * baseCost

NoEntry == [exists |-> FALSE, name |-> "", owner |-> 0, data |-> "", expires |-> 0]
NameRegEntry(name, owner, data, expires) ==
  [exists |-> TRUE, name |-> name, owner |-> owner, data |-> data,
   expires |-> expires]

NameTxValidateStrings(tx) == IF tx.name = "" THEN ErrInvalidString ELSE OK

UpdateName(entry) == [op |-> "update", name |-> entry.name, entry |-> entry]
RemoveName(name) == [op |-> "remove", name |-> name, entry |-> NoEntry]

NameEvents(tx) ==
  <<EventStringAccInput(tx.inputs[1].address), EventStringNameReg(tx.name)>>

\* A variant of expiresIn that rounds the number of blocks up.
expiresInRoundedUp(value, costPerBlock) ==
  (value + costPerBlock - 1) \div costPerBlock

\* Variants: an entry counts as expired only after its last block; the
\* cost per block is left out of the registration period; a transaction
\* without value asks for the removal whatever its data.
entryExpiredStrictly(entry, lastBlockHeight) == entry.expires < lastBlockHeight
expiresInIgnoringCost(value, costPerBlock) == value
deleteRequestedByZeroValue(value, data) == value = 0

\* if entry.Expires > lastBlockHeight { ... } else { expired = true }
entryExpired(entry, lastBlockHeight) == ~(entry.expires > lastBlockHeight)
\* The number of blocks a value pays for.
expiresIn(value, costPerBlock) == value \div costPerBlock
\* no value and empty data means delete the entry
deleteRequested(value, data) == value = 0 /\ data = ""

\* A variant of oldCredit that counts the blocks left and not their cost.
oldCreditInBlocks(entry, lastBlockHeight) ==
  (entry.expires - lastBlockHeight) % Mod

\* The credit an entry that has not expired still holds: the blocks left, at
\* the cost of the data it holds now.
oldCredit(entry, lastBlockHeight) ==
  (((entry.expires - lastBlockHeight) % Mod)
     * NameBaseCost(entry.name, entry.data)) % Mod

\* The debit and the events that end every accepted NameTx.
nameTxGood(tx, inAcc, value, names) ==
  Result(OK, <<SubtractFromBalance(IncSequence(inAcc), value)>>, {}, names,
         NameEvents(tx), FALSE, FALSE)

\* atInput and atPermission are the accounts of exe.blockCache as the reads
\* of the sender and of the global permissions find them.
executeNameTx(atInput, atPermission, nameGetter, lastBlockHeight, tx) ==
  LET in == tx.inputs[1] IN
  IF in.address \notin AllAddr \/ ~atInput[in.address].exists
  THEN Failure(ErrTxInvalidAddress)
  ELSE LET has == hasNamePermission(atPermission, atInput[in.address]) IN
  IF has # "true" THEN PermissionFailure(has)
  ELSE LET pk == checkInputPubKey(atInput[in.address], in) IN
  IF pk.err # OK THEN Failure(pk.err)
  ELSE LET err == validateInput(pk.acc, pk.in) IN
  IF err # OK THEN Failure(err)
  ELSE IF in.amount < tx.fee THEN Failure(ErrTxInsufficientFunds)
  ELSE IF NameTxValidateStrings(tx) # OK THEN Failure(NameTxValidateStrings(tx))
  ELSE
  LET value == in.amount - tx.fee
      costPerBlock == NameCostPerBlock(NameBaseCost(tx.name, tx.data))
      expires == expiresIn(value, costPerBlock)
      entry == nameGetter[tx.name]
  IN
  IF entry.exists
  THEN LET expired == entryExpired(entry, lastBlockHeight) IN
       IF ~expired /\ entry.owner # in.address THEN Failure(ErrNameNotOwned)
       ELSE IF deleteRequested(value, tx.data)
       THEN nameTxGood(tx, pk.acc, value, <<RemoveName(entry.name)>>)
       ELSE IF expired
       THEN IF expires < MinNameRegistrationPeriod THEN Failure(ErrNameTooShort)
            ELSE nameTxGood(tx, pk.acc, value,
                   <<UpdateName(NameRegEntry(entry.name, in.address, tx.data,
                                             (lastBlockHeight + expires) % Mod))>>)
       ELSE LET credit == (oldCredit(entry, lastBlockHeight) + value) % Mod
                expiresIn2 == expiresIn(credit, costPerBlock)
            IN IF expiresIn2 < MinNameRegistrationPeriod THEN Failure(ErrNameTooShort)
               ELSE nameTxGood(tx, pk.acc, value,
                      <<UpdateName(NameRegEntry(entry.name, entry.owner, tx.data,
                                                (lastBlockHeight + expiresIn2) % Mod))>>)
  ELSE IF expires < MinNameRegistrationPeriod THEN Failure(ErrNameTooShort)
       ELSE nameTxGood(tx, pk.acc, value,
              <<UpdateName(NameRegEntry(tx.name, in.address, tx.data,
                                        (lastBlockHeight + expires) % Mod))>>)

\* ------------------------------------------------------------------------
\* PermissionsTx
\* ------------------------------------------------------------------------

PermArgs(permFlag, addr, permission, value, role) ==
  [permFlag |-> permFlag, address |-> addr, permission |-> permission,
   value |-> value, role |-> role]

\* The flags for which the switch on PermArgs.PermFlag has a mutator.
Mutators == {"SetBase", "UnsetBase", "SetGlobal", "AddRole", "RemoveRole"}

\* A variant of applyMutator whose role mutators are a plain set insertion
\* and removal: adding a role twice or removing a missing one is no error.
applyMutatorIdempotent(args, perms) ==
  CASE args.permFlag \in {"SetBase", "SetGlobal"} ->
         [err |-> OK, perms |-> BaseSet(perms, args.permission, args.value)]
    [] args.permFlag = "UnsetBase" ->
         [err |-> OK, perms |-> BaseUnset(perms, args.permission)]
    [] args.permFlag = "AddRole" ->
         [err |-> OK, perms |-> [perms EXCEPT !.roles = @ \cup {args.role}]]
    [] args.permFlag = "RemoveRole" ->
         [err |-> OK, perms |-> [perms EXCEPT !.roles = @ \ {args.role}]]

\* The mutators handed to mutatePermissions, one per flag: the permissions
\* after the mutation and the mutator's error.
applyMutator(args, perms) ==
  CASE args.permFlag = "SetBase" ->
         [err |-> OK, perms |-> BaseSet(perms, args.permission, args.value)]
    [] args.permFlag = "SetGlobal" ->
         [err |-> OK, perms |-> BaseSet(perms, args.permission, args.value)]
    [] args.permFlag = "UnsetBase" ->
         [err |-> OK, perms |-> BaseUnset(perms, args.permission)]
    [] args.permFlag = "AddRole" ->
         IF args.role \in perms.roles THEN [err |-> ErrPermMutation, perms |-> perms]
         ELSE [err |-> OK, perms |-> [perms EXCEPT !.roles = @ \cup {args.role}]]
    [] args.permFlag = "RemoveRole" ->
         IF args.role \notin perms.roles THEN [err |-> ErrPermMutation, perms |-> perms]
         ELSE [err |-> OK, perms |-> [perms EXCEPT !.roles = @ \ {args.role}]]

\* The account read from the state reader with its permissions mutated.
mutatePermissions(getter, addr, args) ==
  IF addr \notin AllAddr \/ ~getter[addr].exists
  THEN [err |-> ErrNoPermAccount, acc |-> NoAcc]
  ELSE LET m == applyMutator(args, getter[addr].permissions) IN
       [err |-> m.err, acc |-> [getter[addr] EXCEPT !.permissions = m.perms]]

PermissionsEvents(tx) ==
  <<EventStringAccInput(tx.inputs[1].address),
    EventStringPermissions(tx.permArgs.permFlag)>>

\* A variant that takes the funds although the mutation was rejected.
permMutationFailedTakingFunds(inAcc, value, err) ==
  Result(err, <<SubtractFromBalance(IncSequence(inAcc), value)>>, {}, <<>>,
         <<EventStringAccInput(inAcc.address)>>, FALSE, FALSE)

\* The mutation was rejected: Execute returns the error, nothing is written.
permMutationFailed(inAcc, value, err) == Failure(err)

\* atInput, atPermission and atTarget are the accounts of exe.blockCache as
\* the reads of the sender, of the global permissions and of the account to
\* mutate find them.
executePermissionsTx(atInput, atPermission, atTarget, tx) ==
  LET in == tx.inputs[1]
      permFlag == tx.permArgs.permFlag
  IN
  IF in.address \notin AllAddr \/ ~atInput[in.address].exists
  THEN Failure(ErrTxInvalidAddress)
  ELSE LET has == HasPermission(atPermission, atInput[in.address], permFlag) IN
  IF has # "true" THEN PermissionFailure(has)
  ELSE LET pk == checkInputPubKey(atInput[in.address], in) IN
  IF pk.err # OK THEN Failure(pk.err)
  ELSE LET err == validateInput(pk.acc, pk.in) IN
  IF err # OK THEN Failure(err)
  ELSE IF permFlag \in {"HasBase", "HasRole"} THEN Failure(ErrPermMutation)
  ELSE IF permFlag \notin Mutators THEN Failure(Panic)
  ELSE
  LET value == in.amount
      target == IF permFlag = "SetGlobal" THEN GlobalPermissionsAddress
                ELSE tx.permArgs.address
      m == mutatePermissions(atTarget, target, tx.permArgs)
  IN IF m.err # OK THEN permMutationFailed(pk.acc, value, m.err)
     ELSE Result(OK,
                 <<SubtractFromBalance(IncSequence(pk.acc), value), m.acc>>,
                 {}, <<>>, PermissionsEvents(tx), FALSE, FALSE)

\* ------------------------------------------------------------------------
\* The executor
\* ------------------------------------------------------------------------

VARIABLES
  runCall,      \* exe.runCall: TRUE for a committer, FALSE for a checker
  height,       \* exe.tip.LastBlockHeight()
  stAccounts,   \* exe.state: accounts
  stStorage,    \* exe.state: one storage slot per account
  stNames,      \* exe.state: name registry
  bcAccounts,   \* exe.blockCache: accounts written in this batch
  bcStorage,    \* exe.blockCache: storage written in this batch
  bcNames,      \* exe.blockCache: name entries written in this batch
  eventCache,   \* exe.eventCache: events buffered
  sink,         \* events delivered to exe.fireable
  saved,        \* exe.state as last saved to disk (State.Save)
  mtx,          \* exe.mtx: the thread that holds it, 0 when free
  pc,           \* where each calling thread is inside the executor
  pending,      \* each thread's locals: the result its Execute computed
  nOps,         \* transactions submitted and direct writes so far
  nCtl,         \* Resets, Commits and new blocks so far
  panicked,     \* a call into the executor has panicked
  last          \* the last operation, its arguments and what it returned

vars == <<runCall, height, stAccounts, stStorage, stNames, bcAccounts,
          bcStorage, bcNames, eventCache, sink, saved, mtx, pc, pending,
          nOps, nCtl, panicked, last>>

\* The threads that call the executor.
Threads == {1, 2}

Names == {"n1", "n2"}

NotCachedAccount == [cached |-> FALSE, acc |-> NoAcc]
NotCachedSlot == [cached |-> FALSE, value |-> 0]
NotCachedName == [cached |-> FALSE, entry |-> NoEntry]

\* NewBlockCache(state): an empty cache over the backing State.
NewBlockCacheAccounts == [a \in AllAddr |-> NotCachedAccount]
NewBlockCacheStorage == [a \in AllAddr |-> NotCachedSlot]
NewBlockCacheNames == [n \in Names |-> NotCachedName]

\* Reads through the block cache: the entry written in this batch, or else
\* the backing State's.
GetAccount == [a \in AllAddr |->
                 IF bcAccounts[a].cached THEN bcAccounts[a].acc ELSE stAccounts[a]]
GetStorage == [a \in AllAddr |->
                 IF bcStorage[a].cached THEN bcStorage[a].value ELSE stStorage[a]]
GetNameRegEntry == [n \in Names |->
                      IF bcNames[n].cached THEN bcNames[n].entry ELSE stNames[n]]

\* A variant of UpdateAccounts whose writes are lost.
UpdateAccountsLost(cache, accounts, i) == cache

\* BlockCache.UpdateAccount for each account of a sequence, in order.
RECURSIVE UpdateAccounts(_, _, _)
UpdateAccounts(cache, accounts, i) ==
  IF i > Len(accounts) THEN cache
  ELSE UpdateAccounts(
         [cache EXCEPT ![accounts[i].address] = [cached |-> TRUE, acc |-> accounts[i]]],
         accounts, i + 1)

SetStorages(cache, writes) ==
  [a \in AllAddr |->
     IF \E w \in writes : w[1] = a
     THEN [cached |-> TRUE, value |-> (CHOOSE w \in writes : w[1] = a)[2]]
     ELSE cache[a]]

\* A variant of UpdateNames whose writes are lost.
UpdateNamesLost(cache, ops, i) == cache

\* BlockCache.UpdateNameRegEntry and RemoveNameRegEntry, in order.
RECURSIVE UpdateNames(_, _, _)
UpdateNames(cache, ops, i) ==
  IF i > Len(ops) THEN cache
  ELSE UpdateNames(
         [cache EXCEPT ![ops[i].name] = [cached |-> TRUE, entry |-> ops[i].entry]],
         ops, i + 1)

\* A variant of SyncAccounts that writes back only the accounts the State
\* already holds.
SyncAccountsOfKnownOnly(state, cache) ==
  [a \in AllAddr |-> IF cache[a].cached /\ state[a].exists THEN cache[a].acc
                     ELSE state[a]]

\* BlockCache.Sync: every entry written in the batch goes to the State.
SyncAccounts(state, cache) ==
  [a \in AllAddr |-> IF cache[a].cached THEN cache[a].acc ELSE state[a]]
SyncStorage(state, cache) ==
  [a \in AllAddr |-> IF cache[a].cached THEN cache[a].value ELSE state[a]]
SyncNames(state, cache) ==
  [n \in Names |-> IF cache[n].cached THEN cache[n].entry ELSE state[n]]

\* State.Hash(): a digest of the State's contents, modelled by the contents.
StateHash(accounts, storage, names) == <<accounts, storage, names>>

\* ------------------------------------------------------------------------
\* Genesis state
\* ------------------------------------------------------------------------

\* The global permissions account has every known flag set in its mask: the
\* base permissions are granted, the moderator permissions are not.
GlobalPermissions ==
  [perms |-> BaseFlags, setBit |-> AllPermFlags, roles |-> {}]
\* Account 1 is a moderator; its other permissions fall back to the global
\* ones.  Its public key is known to the State.
AdminPermissions ==
  [perms |-> ModFlags, setBit |-> ModFlags, roles |-> {"admin"}]

GenesisAccounts ==
  [a \in AllAddr |->
     CASE a = GlobalPermissionsAddress ->
            ConcreteAccount(a, 0, 0, NoKey, 0, GlobalPermissions)
       [] a = 1 -> ConcreteAccount(a, Half + 1, 0, KeyOf(a), 0, AdminPermissions)
       [] a = 2 -> ConcreteAccount(a, 4, 0, NoKey, 0, ZeroAccountPermissions)
       [] a \in GenesisContracts ->
            ConcreteAccount(a, 0, 0, NoKey, 1, ZeroAccountPermissions)
       [] OTHER -> NoAcc]

GenesisStorage == [a \in AllAddr |-> 0]

\* One name is registered at genesis: it expires at height 2.
GenesisNames ==
  [n \in Names |-> IF n = "n2" THEN NameRegEntry(n, 2, "", 2) ELSE NoEntry]

NoResult == Failure(OK)

\* The locals of a thread that is not inside Execute: no read has been
\* made, no write or event is to come.
NoRead == [a \in AllAddr |-> NoAcc]
NoPending ==
  [tx |-> NoTx, vm |-> NoVM, tag |-> 0, atInputs |-> NoRead,
   atPermission |-> NoRead, atOutputs |-> NoRead, effects |-> <<>>]

Init ==
  /\ runCall \in BOOLEAN
  /\ height = 1
  /\ stAccounts = GenesisAccounts
  /\ stStorage = GenesisStorage
  /\ stNames = GenesisNames
  /\ bcAccounts = NewBlockCacheAccounts
  /\ bcStorage = NewBlockCacheStorage
  /\ bcNames = NewBlockCacheNames
  /\ eventCache = <<>>
  /\ sink = <<>>
  /\ saved = StateHash(GenesisAccounts, GenesisStorage, GenesisNames)
  /\ mtx = 0
  /\ pc = [t \in Threads |-> "idle"]
  /\ pending = [t \in Threads |-> NoPending]
  /\ nOps = 0
  /\ nCtl = 0
  /\ panicked = FALSE
  /\ last = [op |-> "Init", tx |-> NoTx, vm |-> NoVM, err |-> OK,
             vmRan |-> FALSE, vmOK |-> FALSE,
             accounts |-> GenesisAccounts, storage |-> GenesisStorage,
             names |-> GenesisNames, events |-> <<>>,
             state |-> StateHash(GenesisAccounts, GenesisStorage, GenesisNames),
             sink |-> <<>>, hash |-> <<>>, prev |-> "Init", tag |-> 0,
             accepted |-> 0, dropped |-> {}]

\* ------------------------------------------------------------------------
\* Operations
\* ------------------------------------------------------------------------

\* The tags of the events in a buffer.
Tags(events) == {events[i].tag : i \in 1..Len(events)}

\* What `last` records of an operation: the operation, its arguments, its
\* result, the executor as the operation found it, how many transactions
\* have been accepted so far and which events a Reset has dropped.
Record(op, tx, vm, r, hash) ==
  [op |-> op, tx |-> tx, vm |-> vm, err |-> r.err, vmRan |-> r.vmRan,
   vmOK |-> r.vmOK, accounts |-> GetAccount, storage |-> GetStorage,
   names |-> GetNameRegEntry, events |-> eventCache,
   state |-> StateHash(stAccounts, stStorage, stNames), sink |-> sink,
   hash |-> hash, prev |-> last.op, tag |-> nOps + 1,
   accepted |-> IF op = "Execute" /\ r.err = OK THEN last.accepted + 1
                ELSE last.accepted,
   dropped |-> IF op = "Reset" THEN last.dropped \cup Tags(eventCache)
               ELSE last.dropped]

\* A variant of ExecuteTxOn in which a checker validates a SendTx and debits
\* its inputs without crediting its outputs.
ExecuteTxOnDebitOnlyChecker(isCommitter, accounts, state, names, h, tx, vm) ==
  CASE tx.type = "SendTx" ->
         LET r == executeSendTx(accounts, accounts, accounts, tx, vm.first) IN
         IF isCommitter \/ r.err # OK THEN r
         ELSE [r EXCEPT !.accounts =
                 LET ins == getInputs(accounts, tx.inputs)
                     adjusted == adjustByInputs(ins.accs, ins.ins).accs
                 IN AccountsOf(adjusted, DOMAIN adjusted)]
    [] tx.type = "CallTx" ->
         executeCallTx(accounts, accounts, accounts, state, isCommitter, tx, vm)
    [] tx.type = "NameTx" -> executeNameTx(accounts, accounts, names, h, tx)
    [] tx.type = "PermissionsTx" ->
         executePermissionsTx(accounts, accounts, accounts, tx)
    [] OTHER -> Failure(Panic)

\* The dispatch of Execute on the transaction's type, for an executor with
\* the given runCall flag whose State holds the accounts `state` and whose
\* tip is at lastBlockHeight.  A transaction of a type without a case
\* reaches the default, which panics.  The block cache reads the accounts atInputs
\* when Execute looks up the inputs, atPermission when it checks their
\* permissions, atOutputs when it looks up the outputs (the callee, the
\* account to mutate), and the name entries `names`.
ExecuteTxReading(isCommitter, atInputs, atPermission, atOutputs, state, names, lastBlockHeight, tx, vm) ==
  CASE tx.type = "SendTx" ->
         executeSendTx(atInputs, atPermission, atOutputs, tx, vm.first)
    [] tx.type = "CallTx" ->
         executeCallTx(atInputs, atPermission, atOutputs, state, isCommitter, tx, vm)
    [] tx.type = "NameTx" ->
         executeNameTx(atInputs, atPermission, names, lastBlockHeight, tx)
    [] tx.type = "PermissionsTx" ->
         executePermissionsTx(atInputs, atPermission, atOutputs, tx)
    [] OTHER -> Failure(Panic)

\* Execute when nothing else touches the block cache between its reads.
ExecuteTxOn(isCommitter, accounts, state, names, lastBlockHeight, tx, vm) ==
  ExecuteTxReading(isCommitter, accounts, accounts, accounts, state, names,
                   lastBlockHeight, tx, vm)

\* Execute on this executor.
ExecuteTx(tx, vm) ==
  ExecuteTxOn(runCall, GetAccount, stAccounts, GetNameRegEntry, height, tx, vm)

\* eventCache.Fire: each event is tagged with the operation that fired it.
Fired(events, tag) ==
  [i \in 1..Len(events) |-> [event |-> events[i], tag |-> tag]]

Execute(tx, vm) ==
  /\ ~panicked
  /\ nOps < MaxOps
  /\ LET r == ExecuteTx(tx, vm) IN
     /\ bcAccounts' = UpdateAccounts(bcAccounts, r.accounts, 1)
     /\ bcStorage' = SetStorages(bcStorage, r.storage)
     /\ bcNames' = UpdateNames(bcNames, r.names, 1)
     /\ eventCache' = eventCache \o Fired(r.events, nOps + 1)
     /\ last' = Record("Execute", tx, vm, r, <<>>)
     /\ panicked' = (r.err = Panic)
  /\ nOps' = nOps + 1
  /\ UNCHANGED <<runCall, height, stAccounts, stStorage, stNames, sink, saved,
                 mtx, pc, pending, nCtl>>

\* A Reset that keeps the block cache.
ResetKeepingBlockCache ==
  /\ ~panicked
  /\ nCtl < MaxCtl
  /\ eventCache' = <<>>
  /\ last' = Record("Reset", NoTx, NoVM, NoResult, <<>>)
  /\ nCtl' = nCtl + 1
  /\ UNCHANGED <<panicked, nOps, runCall, height, stAccounts, stStorage, stNames, sink, saved,
                 mtx, pc, pending, bcAccounts, bcStorage, bcNames>>

\* A Reset that keeps the event cache.
ResetKeepingEventCache ==
  /\ ~panicked
  /\ nCtl < MaxCtl
  /\ bcAccounts' = NewBlockCacheAccounts
  /\ bcStorage' = NewBlockCacheStorage
  /\ bcNames' = NewBlockCacheNames
  /\ last' = Record("Reset", NoTx, NoVM, NoResult, <<>>)
  /\ nCtl' = nCtl + 1
  /\ UNCHANGED <<panicked, nOps, runCall, height, stAccounts, stStorage, stNames, sink, saved,
                 mtx, pc, pending, eventCache>>

Reset ==
  /\ ~panicked
  /\ nCtl < MaxCtl
  /\ bcAccounts' = NewBlockCacheAccounts
  /\ bcStorage' = NewBlockCacheStorage
  /\ bcNames' = NewBlockCacheNames
  /\ eventCache' = <<>>
  /\ last' = Record("Reset", NoTx, NoVM, NoResult, <<>>)
  /\ nCtl' = nCtl + 1
  /\ UNCHANGED <<panicked, nOps, runCall, height, stAccounts, stStorage, stNames, sink, saved,
                 mtx, pc, pending>>

\* The steps of Commit, in the order of the code: sync the block cache into
\* the State, save the State, flush the events, return the State's hash.
CommitBody ==
  /\ ~panicked
  /\ stAccounts' = SyncAccounts(stAccounts, bcAccounts)
  /\ stStorage' = SyncStorage(stStorage, bcStorage)
  /\ stNames' = SyncNames(stNames, bcNames)
  /\ saved' = StateHash(stAccounts', stStorage', stNames')
  /\ sink' = sink \o eventCache
  /\ eventCache' = <<>>
  /\ last' = Record("Commit", NoTx, NoVM, NoResult,
                    StateHash(stAccounts', stStorage', stNames'))
  /\ nCtl' = nCtl + 1
  /\ UNCHANGED <<panicked, nOps, runCall, height, bcAccounts, bcStorage, bcNames, mtx, pc,
                 pending>>

\* A Commit on any executor, a checker included.
CommitOnAnyExecutor ==
  /\ nCtl < MaxCtl
  /\ mtx = 0
  /\ CommitBody

\* Commit is a method of the BatchCommitter only: NewBatchChecker hands out
\* a BatchExecutor, which has none.
Commit ==
  /\ nCtl < MaxCtl
  /\ runCall
  /\ mtx = 0
  /\ CommitBody

\* executor.RemoveAccount, called on an account the executor holds: the block
\* cache marks the account removed, and Sync deletes it from the State.
RemoveAccount(a) ==
  /\ ~panicked
  /\ nOps < MaxOps
  /\ GetAccount[a].exists
  /\ bcAccounts' = [bcAccounts EXCEPT ![a] = [cached |-> TRUE, acc |-> NoAcc]]
  /\ last' = Record("RemoveAccount", NoTx, NoVM, NoResult, <<>>)
  /\ nOps' = nOps + 1
  /\ UNCHANGED <<panicked, nCtl, runCall, height, stAccounts, stStorage, stNames,
                 bcStorage, bcNames, eventCache, sink, saved, mtx, pc, pending>>

\* executor.UpdateAccount: the account is written to the block cache.
UpdateAccount(account) ==
  /\ ~panicked
  /\ nOps < MaxOps
  /\ bcAccounts' = [bcAccounts EXCEPT ![account.address] =
                      [cached |-> TRUE, acc |-> account]]
  /\ last' = Record("UpdateAccount", NoTx, NoVM, NoResult, <<>>)
  /\ nOps' = nOps + 1
  /\ UNCHANGED <<panicked, nCtl, runCall, height, stAccounts, stStorage,
                 stNames, bcStorage, bcNames, eventCache, sink, saved, mtx, pc,
                 pending>>

\* executor.SetStorage: the slot is written to the block cache.
SetStorage(address, value) ==
  /\ ~panicked
  /\ nOps < MaxOps
  /\ bcStorage' = [bcStorage EXCEPT ![address] = [cached |-> TRUE, value |-> value]]
  /\ last' = Record("SetStorage", NoTx, NoVM, NoResult, <<>>)
  /\ nOps' = nOps + 1
  /\ UNCHANGED <<panicked, nCtl, runCall, height, stAccounts, stStorage,
                 stNames, bcAccounts, bcNames, eventCache, sink, saved, mtx, pc,
                 pending>>

\* A variant of NextBlock at which the entries that expire are dropped from
\* the name registry.
NextBlockPurgingNames ==
  /\ ~panicked
  /\ nCtl < MaxCtl
  /\ height' = height + 1
  /\ stNames' = [n \in Names |->
                   IF stNames[n].exists /\ stNames[n].expires <= height + 1
                   THEN NoEntry ELSE stNames[n]]
  /\ bcNames' = [n \in Names |->
                   IF bcNames[n].cached /\ bcNames[n].entry.expires <= height + 1
                   THEN [cached |-> TRUE, entry |-> NoEntry] ELSE bcNames[n]]
  /\ last' = Record("NextBlock", NoTx, NoVM, NoResult, <<>>)
  /\ nCtl' = nCtl + 1
  /\ UNCHANGED <<panicked, nOps, runCall, stAccounts, stStorage, bcAccounts,
                 bcStorage, eventCache, sink, saved, mtx, pc, pending>>

\* The chain's tip moves to the next block.
NextBlock ==
  /\ ~panicked
  /\ nCtl < MaxCtl
  /\ height' = height + 1
  /\ last' = Record("NextBlock", NoTx, NoVM, NoResult, <<>>)
  /\ nCtl' = nCtl + 1
  /\ UNCHANGED <<panicked, nOps, runCall, stAccounts, stStorage, stNames, bcAccounts,
                 bcStorage, bcNames, eventCache, sink, saved, mtx, pc, pending>>

\* ------------------------------------------------------------------------
\* The transactions submitted
\* ------------------------------------------------------------------------

\* An input signed by its address's key and carrying that public key.
In(a, amount, sequence) == TxInput(a, amount, sequence, "ok", KeyOf(a))

SendTxs ==
  {SendTx(<<In(1, 1, 1)>>, <<TxOutput(2, 1)>>),
   SendTx(<<In(1, Half, 1)>>, <<TxOutput(2, 1)>>),
   SendTx(<<In(1, 1, 1), In(2, 1, 1)>>, <<TxOutput(3, 1)>>),
   SendTx(<<In(1, 1, 1)>>, <<TxOutput(2, MaxU), TxOutput(3, 2)>>),
   SendTx(<<In(1, 1, 2)>>, <<TxOutput(2, 1)>>),
   SendTx(<<In(1, 1, 1), In(1, 1, 1)>>, <<TxOutput(2, 1)>>),
   SendTx(<<In(1, 1, 1)>>, <<TxOutput(1, 1)>>),
   SendTx(<<In(1, 2, 1)>>, <<TxOutput(2, 1), TxOutput(2, 1)>>),
   SendTx(<<TxInput(1, 1, 1, "bad", NoKey)>>, <<TxOutput(2, 1)>>),
   SendTx(<<In(1, 1, 1)>>, <<TxOutput(2, 2)>>),
   SendTx(<<In(2, 1, 1)>>, <<TxOutput(1, 1)>>),
   SendTx(<<TxInput(2, 1, 1, "ok", NoKey)>>, <<TxOutput(1, 1)>>),
   SendTx(<<TxInput(2, 1, 1, "ok", KeyOf(1))>>, <<TxOutput(1, 1)>>),
   SendTx(<<In(3, 1, 1)>>, <<TxOutput(1, 1)>>),
   SendTx(<<In(1, 1, 1)>>, <<TxOutput(3, 0)>>),
   SendTx(<<In(1, MaxU, 1)>>, <<TxOutput(2, 1)>>),
   SendTx(<<In(1, MaxU, 2)>>, <<TxOutput(2, 1)>>),
   SendTx(<<In(1, 2, 1)>>, <<TxOutput(4, 1)>>),
   SendTx(<<In(1, 2, 2)>>, <<TxOutput(2, 2)>>),
   SendTx(<<In(2, 5, 1)>>, <<TxOutput(1, 5)>>),
   SendTx(<<In(1, 1, 2)>>, <<TxOutput(3, 1)>>),
   SendTx(<<In(1, 1, 2), In(2, 1, 1)>>, <<TxOutput(3, 1)>>)}

CallTxs ==
  {CallTx(In(1, 2, 1), 4, 1, "d"),
   CallTx(In(1, 1, 1), 4, 1, "d"),
   CallTx(In(1, 2, 1), 0, 1, "d"),
   CallTx(In(1, 2, 1), 0, 1, ""),
   CallTx(In(1, 2, 1), 2, 1, "d"),
   CallTx(In(1, 2, 1), 3, 1, "d"),
   CallTx(In(1, 2, 1), 1, 1, "d"),
   CallTx(In(1, 1, 1), 5, 1, "d"),
   CallTx(In(1, 1, 1), 0, 2, "d"),
   CallTx(In(1, 2, 2), 4, 1, "d"),
   CallTx(In(1, 2, 2), 0, 1, "d"),
   CallTx(In(1, 2, 3), NewContractAddress(1, 1), 1, "d"),
   CallTx(In(2, 2, 1), 4, 1, "d")}

NameTxs ==
  {NameTx(In(1, 3, 1), "n1", "", 1),
   NameTx(In(1, 3, 1), "n1", "d", 1),
   NameTx(In(1, 5, 1), "n1", "d", 1),
   NameTx(In(1, 3, 2), "n1", "", 1),
   NameTx(In(1, 1, 2), "n1", "", 1),
   NameTx(In(1, 3, 1), "n2", "", 1),
   NameTx(In(2, 3, 1), "n2", "", 1),
   NameTx(In(2, 1, 1), "n2", "", 1),
   NameTx(In(1, 1, 1), "n2", "", 1),
   NameTx(In(1, 3, 1), "", "d", 1),
   NameTx(In(1, 1, 1), "n1", "", 2),
   NameTx(In(1, 3, 1), "n1", "", 0),
   NameTx(In(2, 4, 1), "n2", "d", 1),
   NameTx(In(2, 1, 1), "n2", "d", 1),
   NameTx(In(1, 1, 2), "n1", "d", 1),
   NameTx(In(1, 2, 2), "n1", "d", 1)}

PermissionsTxs ==
  {PermissionsTx(In(1, 1, 1), PermArgs("SetBase", 2, "Send", FALSE, "")),
   PermissionsTx(In(1, 1, 1), PermArgs("SetBase", 1, "Send", TRUE, "")),
   PermissionsTx(In(1, 1, 2), PermArgs("SetBase", 1, "Send", TRUE, "")),
   PermissionsTx(In(1, 1, 2), PermArgs("SetBase", 2, "Send", TRUE, "")),
   PermissionsTx(In(1, 1, 1), PermArgs("SetBase", 3, "Send", TRUE, "")),
   PermissionsTx(In(1, 1, 1), PermArgs("UnsetBase", 1, "SetBase", FALSE, "")),
   PermissionsTx(In(1, 1, 1), PermArgs("SetGlobal", 0, "Call", FALSE, "")),
   PermissionsTx(In(1, 1, 1), PermArgs("HasBase", 2, "Send", FALSE, "")),
   PermissionsTx(In(1, 1, 1), PermArgs("HasRole", 2, "", FALSE, "admin")),
   PermissionsTx(In(1, 1, 1), PermArgs("AddRole", 1, "", FALSE, "admin")),
   PermissionsTx(In(1, 1, 1), PermArgs("AddRole", 2, "", FALSE, "admin")),
   PermissionsTx(In(1, 1, 1), PermArgs("RemoveRole", 1, "", FALSE, "admin")),
   PermissionsTx(In(1, 1, 1), PermArgs("RemoveRole", 2, "", FALSE, "admin")),
   PermissionsTx(In(2, 1, 1), PermArgs("SetBase", 1, "Send", FALSE, "")),
   PermissionsTx(In(1, 1, 1), PermArgs("SetBase", 1, "CreateAccount", FALSE, "")),
   PermissionsTx(In(1, 1, 1), PermArgs("UnsetBase", 0, "Send", FALSE, "")),
   PermissionsTx(In(1, 1, 1), PermArgs("Send", 2, "Send", FALSE, "")),
   PermissionsTx(In(1, 1, 1), PermArgs("Unknown", 2, "Send", FALSE, ""))}

TxSet ==
  SendTxs \cup CallTxs \cup NameTxs \cup PermissionsTxs
    \cup {BondTx(<<In(1, 1, 1)>>, <<TxOutput(2, 1)>>)}

\* The addresses of a SendTx whose account would end a range that checks a
\* permission: which of them the range visits first decides how it ends.
\* Address 0 stands for any other order.
RangeChoices(tx) ==
  LET addrs == {tx.inputs[i].address : i \in 1..Len(tx.inputs)}
                 \cup {tx.outputs[i].address : i \in 1..Len(tx.outputs)}
      ending == {a \in addrs \cap AllAddr :
                   /\ GetAccount[a].exists
                   /\ \/ HasPermission(GetAccount, GetAccount[a], "Send") # "true"
                      \/ HasPermission(GetAccount, GetAccount[a], "CreateAccount")
                           # "true"}
  IN IF ending = {} THEN {0} ELSE ending

\* The VM's outcome is a choice only where Execute runs the VM, and the
\* order of a range over the accounts only for a SendTx.
VMChoices(tx) ==
  IF tx.type = "CallTx" /\ runCall THEN VMOutcomes
  ELSE IF tx.type = "SendTx"
  THEN {Outcome(FALSE, 0, <<>>, a) : a \in RangeChoices(tx)}
  ELSE {NoVM}

ExecuteAny == \E tx \in TxSet : \E vm \in VMChoices(tx) : Execute(tx, vm)

RemoveAny == \E a \in Users : RemoveAccount(a)

\* The accounts and slots handed to the executor's own UpdateAccount and
\* SetStorage: account 2 as rich as an account can be, with the Send
\* permission denied on the account itself.
UpdatedAccounts ==
  {ConcreteAccount(2, MaxU, 0, NoKey, 0,
                   [perms |-> {}, setBit |-> {"Send"}, roles |-> {}])}
UpdateAny == \E account \in UpdatedAccounts : UpdateAccount(account)
SetStorageAny == SetStorage(4, 1)

Next ==
  ExecuteAny \/ Reset \/ Commit \/ NextBlock \/ RemoveAny \/ UpdateAny \/ SetStorageAny

Spec == Init /\ [][Next]_vars

\* ------------------------------------------------------------------------
\* The executor called from concurrent threads.  Each method is split into
\* the steps of its body; pc[t] says where thread t is, "idle" outside every
\* method.  Only Commit takes exe.mtx: Execute and Reset run their steps
\* without it.
\* ------------------------------------------------------------------------

\* The transactions the threads submit.
ConcTxs ==
  {SendTx(<<In(1, 1, 1)>>, <<TxOutput(2, 1)>>),
   CallTx(In(1, 2, 1), 4, 1, "d"),
   NameTx(In(1, 3, 1), "n1", "", 1),
   PermissionsTx(In(1, 1, 1), PermArgs("SetBase", 2, "Send", TRUE, "")),
   BondTx(<<In(1, 1, 1)>>, <<TxOutput(2, 1)>>)}

Goto(t, label) == pc' = [pc EXCEPT ![t] = label]

\* The steps of Execute.  Each is one statement of its body that reads or
\* writes exe.blockCache, exe.state or exe.eventCache; what Execute computes
\* in between is local to the thread.  pending[t] holds the thread's locals:
\* the accounts as its reads found them, and the writes and events that
\* are still to come.

\* The accounts a read has seen.
Seen(getter, addrs) == [a \in AllAddr |-> IF a \in addrs THEN getter[a] ELSE NoAcc]

\* What is still to come: exe.blockCache.UpdateAccount of an account,
\* UpdateNameRegEntry or RemoveNameRegEntry, the VM call, txCache.Sync of
\* the accounts and the storage the call wrote, exe.eventCache.Fire of an
\* event.
Effect(kind, accounts, storage, name, event) ==
  [kind |-> kind, accounts |-> accounts, storage |-> storage, name |-> name,
   event |-> event]
NoEvent == Event("", 0, "", "", "")
UpdateAccountEffects(accounts) ==
  [i \in 1..Len(accounts) |->
     Effect("UpdateAccount", <<accounts[i]>>, {}, RemoveName(""), NoEvent)]
UpdateNameEffects(names) ==
  [i \in 1..Len(names) |-> Effect("UpdateName", <<>>, {}, names[i], NoEvent)]
FireEffects(events) ==
  [i \in 1..Len(events) |-> Effect("Fire", <<>>, {}, RemoveName(""), events[i])]
CallEffect == Effect("Call", <<>>, {}, RemoveName(""), NoEvent)
SyncEffect(accounts, storage) ==
  Effect("Sync", accounts, storage, RemoveName(""), NoEvent)

\* The writes and events of an accepted transaction, in the order of the
\* code.  A NameTx writes the name entry and then the account.  A CallTx on
\* a committer writes the caller and then runs the VM: what follows is known
\* after the call.
Effects(isCommitter, tx, r) ==
  IF tx.type = "CallTx" /\ isCommitter
  THEN UpdateAccountEffects(<<r.accounts[1]>>) \o <<CallEffect>>
  ELSE UpdateNameEffects(r.names) \o UpdateAccountEffects(r.accounts)
         \o FireEffects(r.events)

\* After the VM call, which has fired the first vmFired of the events: the
\* sync of the txCache when the call succeeded, and the events of the
\* caller and the callee.
EffectsAfterCall(r, vmFired) ==
  (IF r.vmOK THEN <<SyncEffect(Tail(r.accounts), r.storage)>> ELSE <<>>)
    \o FireEffects(SubSeq(r.events, vmFired + 1, Len(r.events)))

\* The lookup of the inputs ends Execute with an error.
inputsNotFound(atInputs, tx) ==
  IF tx.type = "SendTx" THEN getInputs(atInputs, tx.inputs).err # OK
  ELSE \/ tx.inputs[1].address \notin AllAddr
       \/ ~atInputs[tx.inputs[1].address].exists

\* The permission check that follows the lookup of the inputs.
inputsPermission(atInputs, atPermission, tx, first) ==
  CASE tx.type = "SendTx" ->
         hasSendPermission(atPermission, getInputs(atInputs, tx.inputs).accs, first)
    [] tx.type = "CallTx" ->
         IF tx.callee = 0
         THEN hasCreateContractPermission(atPermission,
                                          atInputs[tx.inputs[1].address])
         ELSE hasCallPermission(atPermission, atInputs[tx.inputs[1].address])
    [] tx.type = "NameTx" ->
         hasNamePermission(atPermission, atInputs[tx.inputs[1].address])
    [] tx.type = "PermissionsTx" ->
         HasPermission(atPermission, atInputs[tx.inputs[1].address],
                       tx.permArgs.permFlag)

\* Execute is called and switches on the type of the transaction: a type
\* without a case panics.
ExecuteBegin(t, tx, vm) ==
  /\ ~panicked
  /\ pc[t] = "idle"
  /\ nOps < MaxOps
  /\ IF tx.type \in TxTypes
     THEN /\ pending' = [pending EXCEPT ![t] =
                           [NoPending EXCEPT !.tx = tx, !.vm = vm,
                                             !.tag = nOps + 1]]
          /\ Goto(t, "inputs")
          /\ UNCHANGED panicked
     ELSE /\ panicked' = TRUE
          /\ UNCHANGED <<pc, pending>>
  /\ nOps' = nOps + 1
  /\ UNCHANGED <<runCall, height, stAccounts, stStorage, stNames,
                 bcAccounts, bcStorage, bcNames, eventCache, sink, saved, mtx,
                 nCtl, last>>

\* Execute returns: with an error, or after its last write or event.
Return(t) == pending' = [pending EXCEPT ![t] = NoPending] /\ Goto(t, "idle")

\* The input accounts are read through the block cache.
ExecuteGetInputs(t) ==
  /\ ~panicked
  /\ pc[t] = "inputs"
  /\ LET tx == pending[t].tx
         read == Seen(GetAccount,
                      {tx.inputs[i].address : i \in 1..Len(tx.inputs)})
     IN IF inputsNotFound(read, tx) THEN Return(t)
        ELSE /\ pending' = [pending EXCEPT ![t].atInputs = read]
             /\ Goto(t, "permission")
  /\ UNCHANGED <<panicked, runCall, height, stAccounts, stStorage, stNames,
                 bcAccounts, bcStorage, bcNames, eventCache, sink, saved, mtx,
                 nOps, nCtl, last>>

\* The permission of the inputs is checked: a flag that an input account
\* does not set is read from the global permissions account, through the
\* block cache.
ExecuteCheckPermission(t) ==
  /\ ~panicked
  /\ pc[t] = "permission"
  /\ LET p == pending[t]
         read == Seen(GetAccount, {GlobalPermissionsAddress})
         has == inputsPermission(p.atInputs, read, p.tx, p.vm.first)
     IN IF has # "true"
        THEN Return(t) /\ panicked' = (has = Panic)
        ELSE /\ pending' = [pending EXCEPT ![t].atPermission = read]
             /\ Goto(t, "outputs")
             /\ UNCHANGED panicked
  /\ UNCHANGED <<runCall, height, stAccounts, stStorage, stNames,
                 bcAccounts, bcStorage, bcNames, eventCache, sink, saved, mtx,
                 nOps, nCtl, last>>

\* The outputs (the callee, the name entry, the account to mutate) are read
\* through the block cache.  Execute returns the error, or goes on to its
\* writes.
ExecuteGetOutputs(t) ==
  /\ ~panicked
  /\ pc[t] = "outputs"
  /\ LET p == pending[t]
         r == ExecuteTxReading(runCall, p.atInputs, p.atPermission, GetAccount,
                               stAccounts, GetNameRegEntry, height, p.tx, p.vm)
     IN IF r.err # OK
        THEN Return(t) /\ panicked' = (r.err = Panic)
        ELSE /\ pending' = [pending EXCEPT
                             ![t].atOutputs =
                               IF p.tx.type = "CallTx" /\ runCall
                               THEN Seen(GetAccount, {p.tx.callee}) ELSE NoRead,
                             ![t].effects = Effects(runCall, p.tx, r)]
             /\ Goto(t, "effects")
             /\ UNCHANGED panicked
  /\ UNCHANGED <<runCall, height, stAccounts, stStorage, stNames,
                 bcAccounts, bcStorage, bcNames, eventCache, sink, saved, mtx,
                 nOps, nCtl, last>>

\* The effects of thread t that are left when effect i has been made.
Done(t, i) ==
  LET rest == SubSeq(pending[t].effects, 1, i - 1)
                \o SubSeq(pending[t].effects, i + 1, Len(pending[t].effects))
  IN IF rest = <<>> THEN Return(t)
     ELSE /\ pending' = [pending EXCEPT ![t].effects = rest]
          /\ UNCHANGED pc

\* exe.blockCache.UpdateAccount.  A SendTx writes its accounts in the order
\* of a range over the map that holds them, which is any order.
ExecuteUpdateAccount(t, i) ==
  /\ ~panicked
  /\ pc[t] = "effects"
  /\ i \in 1..Len(pending[t].effects)
  /\ i = 1 \/ pending[t].tx.type = "SendTx"
  /\ \A j \in 1..i : pending[t].effects[j].kind = "UpdateAccount"
  /\ bcAccounts' = UpdateAccounts(bcAccounts, pending[t].effects[i].accounts, 1)
  /\ Done(t, i)
  /\ UNCHANGED <<panicked, runCall, height, stAccounts, stStorage, stNames,
                 bcStorage, bcNames, eventCache, sink, saved, mtx, nOps, nCtl,
                 last>>

\* exe.blockCache.UpdateNameRegEntry or RemoveNameRegEntry.
ExecuteUpdateName(t) ==
  /\ ~panicked
  /\ pc[t] = "effects"
  /\ pending[t].effects[1].kind = "UpdateName"
  /\ bcNames' = UpdateNames(bcNames, <<pending[t].effects[1].name>>, 1)
  /\ Done(t, 1)
  /\ UNCHANGED <<panicked, runCall, height, stAccounts, stStorage, stNames,
                 bcAccounts, bcStorage, eventCache, sink, saved, mtx, nOps,
                 nCtl, last>>

\* The commit path of a CallTx after the caller has been written: the
\* creation of a contract reads the global permissions from exe.state, the
\* VM runs over a txCache and fires its events into exe.eventCache.
ExecuteCall(t) ==
  /\ ~panicked
  /\ pc[t] = "effects"
  /\ pending[t].effects[1].kind = "Call"
  /\ LET p == pending[t]
         r == ExecuteTxReading(TRUE, p.atInputs, p.atPermission, p.atOutputs,
                               stAccounts, GetNameRegEntry, height, p.tx, p.vm)
         vmEvents == IF r.vmRan THEN p.vm.events ELSE <<>>
         rest == EffectsAfterCall(r, Len(vmEvents))
     IN /\ eventCache' = eventCache \o Fired(vmEvents, p.tag)
        /\ IF rest = <<>> THEN Return(t)
           ELSE pending' = [pending EXCEPT ![t].effects = rest] /\ UNCHANGED pc
  /\ UNCHANGED <<panicked, runCall, height, stAccounts, stStorage, stNames,
                 bcAccounts, bcStorage, bcNames, sink, saved, mtx, nOps, nCtl,
                 last>>

\* txCache.Sync(exe.blockCache)
ExecuteSync(t) ==
  /\ ~panicked
  /\ pc[t] = "effects"
  /\ pending[t].effects[1].kind = "Sync"
  /\ bcAccounts' = UpdateAccounts(bcAccounts, pending[t].effects[1].accounts, 1)
  /\ bcStorage' = SetStorages(bcStorage, pending[t].effects[1].storage)
  /\ Done(t, 1)
  /\ UNCHANGED <<panicked, runCall, height, stAccounts, stStorage, stNames,
                 bcNames, eventCache, sink, saved, mtx, nOps, nCtl, last>>

\* exe.eventCache.Fire
ExecuteFire(t) ==
  /\ ~panicked
  /\ pc[t] = "effects"
  /\ pending[t].effects[1].kind = "Fire"
  /\ eventCache' = eventCache \o Fired(<<pending[t].effects[1].event>>,
                                       pending[t].tag)
  /\ Done(t, 1)
  /\ UNCHANGED <<panicked, runCall, height, stAccounts, stStorage, stNames,
                 bcAccounts, bcStorage, bcNames, sink, saved, mtx, nOps, nCtl,
                 last>>

\* Reset replaces the block cache ...
ResetBlockCache(t) ==
  /\ ~panicked
  /\ pc[t] = "idle"
  /\ nCtl < MaxCtl
  /\ bcAccounts' = NewBlockCacheAccounts
  /\ bcStorage' = NewBlockCacheStorage
  /\ bcNames' = NewBlockCacheNames
  /\ Goto(t, "reset")
  /\ nCtl' = nCtl + 1
  /\ UNCHANGED <<panicked, runCall, height, stAccounts, stStorage, stNames, eventCache,
                 sink, saved, mtx, pending, nOps, last>>

\* ... and then the event cache.
ResetEventCache(t) ==
  /\ ~panicked
  /\ pc[t] = "reset"
  /\ eventCache' = <<>>
  /\ Goto(t, "idle")
  /\ UNCHANGED <<panicked, runCall, height, stAccounts, stStorage, stNames, bcAccounts,
                 bcStorage, bcNames, sink, saved, mtx, pending, nOps, nCtl,
                 last>>

\* exe.mtx.Lock()
CommitLock(t) ==
  /\ ~panicked
  /\ pc[t] = "idle"
  /\ nCtl < MaxCtl
  /\ runCall
  /\ mtx = 0
  /\ mtx' = t
  /\ Goto(t, "sync")
  /\ nCtl' = nCtl + 1
  /\ UNCHANGED <<panicked, runCall, height, stAccounts, stStorage, stNames, bcAccounts,
                 bcStorage, bcNames, eventCache, sink, saved, pending, nOps,
                 last>>

\* A variant of CommitSync that goes on to the flush without the save.
CommitSyncThenFlush(t) ==
  /\ ~panicked
  /\ pc[t] = "sync"
  /\ stAccounts' = SyncAccounts(stAccounts, bcAccounts)
  /\ stStorage' = SyncStorage(stStorage, bcStorage)
  /\ stNames' = SyncNames(stNames, bcNames)
  /\ Goto(t, "flush")
  /\ UNCHANGED <<panicked, runCall, height, bcAccounts, bcStorage, bcNames, eventCache,
                 sink, saved, mtx, pending, nOps, nCtl, last>>

\* exe.blockCache.Sync()
CommitSync(t) ==
  /\ ~panicked
  /\ pc[t] = "sync"
  /\ stAccounts' = SyncAccounts(stAccounts, bcAccounts)
  /\ stStorage' = SyncStorage(stStorage, bcStorage)
  /\ stNames' = SyncNames(stNames, bcNames)
  /\ Goto(t, "save")
  /\ UNCHANGED <<panicked, runCall, height, bcAccounts, bcStorage, bcNames, eventCache,
                 sink, saved, mtx, pending, nOps, nCtl, last>>

\* exe.state.Save()
CommitSave(t) ==
  /\ ~panicked
  /\ pc[t] = "save"
  /\ saved' = StateHash(stAccounts, stStorage, stNames)
  /\ Goto(t, "flush")
  /\ UNCHANGED <<panicked, runCall, height, stAccounts, stStorage, stNames, bcAccounts,
                 bcStorage, bcNames, eventCache, sink, mtx, pending, nOps,
                 nCtl, last>>

\* exe.eventCache.Flush()
CommitFlush(t) ==
  /\ ~panicked
  /\ pc[t] = "flush"
  /\ sink' = sink \o eventCache
  /\ eventCache' = <<>>
  /\ Goto(t, "unlock")
  /\ UNCHANGED <<panicked, runCall, height, stAccounts, stStorage, stNames, bcAccounts,
                 bcStorage, bcNames, saved, mtx, pending, nOps, nCtl, last>>

\* return exe.state.Hash(), with the deferred exe.mtx.Unlock()
CommitUnlock(t) ==
  /\ ~panicked
  /\ pc[t] = "unlock"
  /\ mtx' = 0
  /\ Goto(t, "idle")
  /\ UNCHANGED <<panicked, runCall, height, stAccounts, stStorage, stNames, bcAccounts,
                 bcStorage, bcNames, eventCache, sink, saved, pending, nOps,
                 nCtl, last>>

ExecuteStep(t) ==
  \/ \E tx \in ConcTxs : \E vm \in VMChoices(tx) : ExecuteBegin(t, tx, vm)
  \/ ExecuteGetInputs(t)
  \/ ExecuteCheckPermission(t)
  \/ ExecuteGetOutputs(t)
  \/ \E i \in 1..2 : ExecuteUpdateAccount(t, i)
  \/ ExecuteUpdateName(t)
  \/ ExecuteCall(t)
  \/ ExecuteSync(t)
  \/ ExecuteFire(t)

ResetStep(t) == ResetBlockCache(t) \/ ResetEventCache(t)

CommitStep(t) ==
  \/ CommitLock(t)
  \/ CommitSync(t)
  \/ CommitSave(t)
  \/ CommitFlush(t)
  \/ CommitUnlock(t)

NextConc == \E t \in Threads : ExecuteStep(t) \/ ResetStep(t) \/ CommitStep(t)

SpecConc == Init /\ [][NextConc]_vars

\* The same steps taken by one thread: the methods are called one after the
\* other, and the steps inside each method are visible.
NextSteps == ExecuteStep(1) \/ ResetStep(1) \/ CommitStep(1)

SpecSteps == Init /\ [][NextSteps]_vars

\* ------------------------------------------------------------------------
\* The executor over a store that fails.  A failing BlockCache.UpdateAccount
\* stores nothing and returns an error; a failing BlockCache.Sync leaves
\* some of the cached entries out of the State, a failing State.Save leaves
\* the saved State as it was, and both report the failure.
\* ------------------------------------------------------------------------

\* The writes of a sequence that are not lost.
RECURSIVE WritesKept(_, _, _)
WritesKept(accounts, lost, i) ==
  IF i > Len(accounts) THEN <<>>
  ELSE (IF i \in lost THEN <<>> ELSE <<accounts[i]>>)
         \o WritesKept(accounts, lost, i + 1)

\* What Execute returns after its writes: the result of the UpdateAccount
\* calls is not looked at.
ExecuteReturns(r, writeFailed) == r.err

\* What Commit returns besides the hash: nil, whatever Sync and Save did.
CommitReturns(syncFailed, saveFailed) == OK

\* Execute of an accepted transaction during which the UpdateAccount calls
\* numbered in `lost` fail.
ExecuteWriteFails(tx, vm, lost) ==
  /\ ~panicked
  /\ nOps < MaxOps
  /\ LET r == ExecuteTx(tx, vm) IN
     /\ r.err = OK
     /\ lost # {} /\ lost \subseteq 1..Len(r.accounts)
     /\ bcAccounts' = UpdateAccounts(bcAccounts, WritesKept(r.accounts, lost, 1), 1)
     /\ bcStorage' = SetStorages(bcStorage, r.storage)
     /\ bcNames' = UpdateNames(bcNames, r.names, 1)
     /\ eventCache' = eventCache \o Fired(r.events, nOps + 1)
     /\ last' = Record("ExecuteWriteFailed", tx, vm,
                       [r EXCEPT !.err = ExecuteReturns(r, TRUE)], <<>>)
  /\ nOps' = nOps + 1
  /\ UNCHANGED <<panicked, runCall, height, stAccounts, stStorage, stNames, sink, saved,
                 mtx, pc, pending, nCtl>>

\* Commit during which the sync fails (the accounts in `unsynced` do not
\* reach the State) or the save fails, or both.
CommitStoreFails(unsynced, saveFailed) ==
  /\ ~panicked
  /\ nCtl < MaxCtl
  /\ runCall
  /\ mtx = 0
  /\ unsynced \subseteq {a \in AllAddr : bcAccounts[a].cached}
  /\ unsynced # {} \/ saveFailed
  /\ stAccounts' = [a \in AllAddr |->
                      IF a \in unsynced THEN stAccounts[a]
                      ELSE SyncAccounts(stAccounts, bcAccounts)[a]]
  /\ stStorage' = SyncStorage(stStorage, bcStorage)
  /\ stNames' = SyncNames(stNames, bcNames)
  /\ saved' = IF saveFailed THEN saved
              ELSE StateHash(stAccounts', stStorage', stNames')
  /\ sink' = sink \o eventCache
  /\ eventCache' = <<>>
  /\ last' = Record("CommitStoreFailed", NoTx, NoVM,
                    Failure(CommitReturns(unsynced # {}, saveFailed)),
                    StateHash(stAccounts', stStorage', stNames'))
  /\ nCtl' = nCtl + 1
  /\ UNCHANGED <<panicked, nOps, runCall, height, bcAccounts, bcStorage, bcNames, mtx, pc,
                 pending>>

ExecuteOnStore ==
  \E tx \in ConcTxs : \E vm \in VMChoices(tx) :
    \/ Execute(tx, vm)
    \/ \E lost \in SUBSET (1..2) : ExecuteWriteFails(tx, vm, lost)

CommitOnStore ==
  \/ Commit
  \/ \E unsynced \in SUBSET Users : \E saveFailed \in BOOLEAN :
       CommitStoreFails(unsynced, saveFailed)

NextFailingStore == ExecuteOnStore \/ Reset \/ CommitOnStore

SpecFailingStore == Init /\ [][NextFailingStore]_vars

\* ------------------------------------------------------------------------
\* Properties.  `last` describes the operation that led to the current
\* state: last.accounts, last.storage, last.names, last.events, last.state
\* and last.sink are the executor as that operation found it; GetAccount,
\* GetStorage, GetNameRegEntry, eventCache, the State and sink are the
\* executor as it left it.
\* ------------------------------------------------------------------------

Executed == last.op = "Execute"
Accepted == Executed /\ last.err = OK
\* Execute returned an error.
Rejected == Executed /\ last.err \notin {OK, Panic}
\* Execute did not return: the call panicked.
Fatal == Executed /\ last.err = Panic
AcceptedOf(type) == Accepted /\ last.tx.type = type

\* Sums over the integers (no wrap-around).
RECURSIVE SumAmounts(_, _)
SumAmounts(items, i) ==
  IF i > Len(items) THEN 0 ELSE items[i].amount + SumAmounts(items, i + 1)

RECURSIVE SumBalances(_, _)
SumBalances(accounts, addrs) ==
  IF addrs = {} THEN 0
  ELSE LET a == CHOOSE x \in addrs : TRUE IN
       accounts[a].balance + SumBalances(accounts, addrs \ {a})

InputAddrs(tx) == {tx.inputs[i].address : i \in 1..Len(tx.inputs)}

\* C1: every accepted SendTx lowers each input account's balance by its
\* input amount, raises each output account's balance by its output amount,
\* and lowers the sum of all balances by (sum of inputs - sum of outputs).
C1_SendConservesBalances ==
  AcceptedOf("SendTx") =>
    /\ \A i \in 1..Len(last.tx.inputs) :
         GetAccount[last.tx.inputs[i].address].balance
           = last.accounts[last.tx.inputs[i].address].balance
               - last.tx.inputs[i].amount
    /\ \A i \in 1..Len(last.tx.outputs) :
         GetAccount[last.tx.outputs[i].address].balance
           = last.accounts[last.tx.outputs[i].address].balance
               + last.tx.outputs[i].amount
    /\ SumBalances(GetAccount, AllAddr)
         = SumBalances(last.accounts, AllAddr)
             - (SumAmounts(last.tx.inputs, 1) - SumAmounts(last.tx.outputs, 1))

\* C2: in every accepted SendTx the sum of the output amounts, taken over
\* the integers, is at most the sum of the input amounts.
C2_OutputsWithinInputs ==
  AcceptedOf("SendTx") =>
    SumAmounts(last.tx.outputs, 1) <= SumAmounts(last.tx.inputs, 1)

\* C3: every accepted transaction, of any family and in either path, leaves
\* each input account's sequence at its former value plus one.
C3_SequencePlusOne ==
  Accepted =>
    \A a \in InputAddrs(last.tx) :
      GetAccount[a].sequence = last.accounts[a].sequence + 1

\* C4: every accepted transaction, of any family, leaves each input
\* account's balance at its former value minus the input's full amount.
C4_InputAmountDebited ==
  Accepted =>
    \A i \in 1..Len(last.tx.inputs) :
      GetAccount[last.tx.inputs[i].address].balance
        = last.accounts[last.tx.inputs[i].address].balance
            - last.tx.inputs[i].amount

\* The callee of a CallTx: the address given, or for a creation the address
\* derived from the caller and its sequence as the creation finds it.
CalleeAddr(tx, accounts) ==
  IF tx.callee # 0 THEN tx.callee
  ELSE NewContractAddress(tx.inputs[1].address,
                          accounts[tx.inputs[1].address].sequence + 1)

\* C5: in the commit path an accepted CallTx ends in one of two outcomes.
\* (a) The VM call succeeded: value = amount - fee has moved from the caller
\* to the callee, and what the call wrote (the slot stored, the code of a
\* created contract) is in the block cache.  (b) The VM call failed or was
\* skipped: no account but the caller's and no storage slot has changed, the
\* caller's balance fell by the fee and its sequence advanced by one.
C5_CallOutcomes ==
  (AcceptedOf("CallTx") /\ runCall) =>
    LET tx == last.tx
        caller == tx.inputs[1].address
        callee == CalleeAddr(tx, last.accounts)
        value == tx.inputs[1].amount - tx.fee
    IN IF last.vmOK
       THEN /\ GetAccount[caller].balance
                 = last.accounts[caller].balance - tx.fee - value
            /\ GetAccount[callee].exists
            /\ GetAccount[callee].balance = last.accounts[callee].balance + value
            /\ (tx.callee = 0 => GetAccount[callee].code
                                   = (IF tx.data = "" THEN 0 ELSE last.vm.ret))
            /\ (GetAccount[callee].code # 0 /\ last.vm.store # 0
                  => GetStorage[callee] = last.vm.store)
       ELSE /\ \A a \in AllAddr \ {caller} : GetAccount[a] = last.accounts[a]
            /\ GetStorage = last.storage
            /\ GetAccount[caller].balance = last.accounts[caller].balance - tx.fee
            /\ GetAccount[caller].sequence = last.accounts[caller].sequence + 1

\* A commit-path call whose VM run failed while carrying a value.
C5_Witness ==
  /\ AcceptedOf("CallTx") /\ runCall
  /\ last.vmRan /\ ~last.vmOK
  /\ last.tx.inputs[1].amount > last.tx.fee

\* C6: when Execute returns an error, the accounts, storage slots and name
\* entries read through the block cache are those read before the call, and
\* the event cache holds what it held.  The same is true of an Execute that
\* panics.
C6_ErrorLeavesCacheUnchanged ==
  (Rejected \/ Fatal) =>
    /\ GetAccount = last.accounts
    /\ GetStorage = last.storage
    /\ GetNameRegEntry = last.names
    /\ eventCache = last.events

\* A PermissionsTx that passed validation and whose mutation was rejected,
\* after an earlier transaction of the batch was accepted.
C6_Witness ==
  /\ Rejected
  /\ last.tx.type = "PermissionsTx"
  /\ last.err = ErrPermMutation
  /\ last.accepted > 0

\* The threads inside a method of the executor.
Active == {t \in Threads : pc[t] # "idle"}
InCommit(t) == pc[t] \in {"sync", "save", "flush", "unlock"}

\* C7: when Execute, Reset and Commit are called from concurrent threads, at
\* most one of them is inside its body at any moment: no step of an Execute
\* or a Reset falls between the steps of a running Commit or of another
\* Execute.
C7_OneMethodAtATime ==
  /\ Cardinality(Active) <= 1
  /\ \A t \in Threads : InCommit(t) => Active = {t}


\* The State's contents after a Commit of an empty batch over `state`.
CommitOfNothing(state) ==
  StateHash(SyncAccounts(state[1], NewBlockCacheAccounts),
            SyncStorage(state[2], NewBlockCacheStorage),
            SyncNames(state[3], NewBlockCacheNames))

\* C8: a Commit that follows a Reset returns the hash, and leaves the State
\* with the contents, of a Commit with no transaction executed.
C8_ResetThenCommit ==
  (last.op = "Commit" /\ last.prev = "Reset") =>
    /\ StateHash(stAccounts, stStorage, stNames) = CommitOfNothing(last.state)
    /\ last.hash = CommitOfNothing(last.state)
    /\ saved = CommitOfNothing(last.state)

\* A transaction was accepted, then Reset, then Commit.
C8_Witness ==
  /\ last.op = "Commit" /\ last.prev = "Reset"
  /\ last.accepted > 0
  /\ sink = <<>>

\* C9: only Commit delivers events to the sink, and no event that was in
\* the event cache at a Reset is ever delivered.
C9_EventsOnlyAtCommit ==
  /\ last.op # "Commit" => sink = last.sink
  /\ \A i \in 1..Len(sink) : sink[i].tag \notin last.dropped

\* Events were dropped by a Reset, and a Commit has since delivered the
\* events of a later transaction.
C9_Witness ==
  /\ last.op = "Commit"
  /\ last.dropped # {}
  /\ sink # <<>>

\* C10: on a checker (runCall = FALSE) no operation changes the backing
\* State or delivers an event; the State changes only in a Commit on a
\* committer.
C10_CheckerLeavesStateAlone ==
  /\ ~runCall =>
       /\ StateHash(stAccounts, stStorage, stNames) = last.state
       /\ saved = last.state
       /\ sink = <<>>
  /\ StateHash(stAccounts, stStorage, stNames) # last.state =>
       last.op = "Commit" /\ runCall

\* A checker that accepted a transaction and was then reset.
C10_Witness ==
  /\ ~runCall
  /\ last.op = "Reset"
  /\ last.accepted > 0
  /\ last.dropped # {}

\* C11: after Commit, reading any address from the backing State yields the
\* account that GetAccount on the executor returned just before the Commit,
\* absent accounts included.
C11_CommitCoherence ==
  last.op = "Commit" =>
    \A a \in AllAddr : stAccounts[a] = last.accounts[a]

\* A Commit of a batch that created one account and removed another.
C11_Witness ==
  /\ last.op = "Commit"
  /\ \E a \in AllAddr : stAccounts[a].exists /\ ~last.state[1][a].exists
  /\ \E a \in AllAddr : ~stAccounts[a].exists /\ last.state[1][a].exists

\* A SendTx with one input that nothing but its sequence can fail, against
\* the accounts as read before it: the input account exists, may send, has
\* or brings its key, is signed, and the outputs are existing accounts other
\* than the input's.
ValidButForSequence(tx, accounts) ==
  /\ tx.type = "SendTx"
  /\ Len(tx.inputs) = 1
  /\ LET in == tx.inputs[1]
         acc == accounts[in.address]
     IN /\ acc.exists
        /\ HasPermission(accounts, acc, "Send") = "true"
        /\ in.amount > 0
        /\ in.signature = "ok"
        /\ in.pubKey = KeyOf(in.address)
        /\ acc.pubKey \in {NoKey, KeyOf(in.address)}
        /\ \A i \in 1..Len(tx.outputs) :
             /\ accounts[tx.outputs[i].address].exists
             /\ tx.outputs[i].address # in.address
             /\ \A j \in 1..Len(tx.outputs) :
                  i # j => tx.outputs[i].address # tx.outputs[j].address

\* C12: within a batch every Execute validates against what the earlier
\* accepted Executes left in the block cache.  An accepted transaction's
\* inputs each carry the sequence after the one read through the cache and
\* an amount within the balance read through the cache; a SendTx out of
\* sequence is rejected with InvalidSequence; and what an accepted SendTx
\* debits and credits is what the next read through the cache returns.
C12_BatchOrder ==
  /\ Accepted =>
       \A i \in 1..Len(last.tx.inputs) :
         LET in == last.tx.inputs[i] IN
         /\ in.sequence = last.accounts[in.address].sequence + 1
         /\ in.amount <= last.accounts[in.address].balance
  /\ (Executed /\ ValidButForSequence(last.tx, last.accounts)
        /\ last.tx.inputs[1].sequence
             # last.accounts[last.tx.inputs[1].address].sequence + 1)
       => last.err = ErrTxInvalidSequence
  /\ AcceptedOf("SendTx") =>
       /\ \A i \in 1..Len(last.tx.inputs) :
            LET in == last.tx.inputs[i] IN
            /\ GetAccount[in.address].sequence = in.sequence
            /\ GetAccount[in.address].balance
                 = last.accounts[in.address].balance - in.amount
       /\ \A i \in 1..Len(last.tx.outputs) :
            LET out == last.tx.outputs[i] IN
            GetAccount[out.address].balance
              = (last.accounts[out.address].balance + out.amount) % Mod

\* The second transaction of a batch from the same account, carrying the
\* sequence after the first one's, is accepted while the State still has the
\* account at its old sequence.
C12_Witness ==
  /\ AcceptedOf("SendTx")
  /\ last.prev = "Execute"
  /\ last.accepted = 2
  /\ last.tx.inputs[1].sequence = 2
  /\ stAccounts[last.tx.inputs[1].address].sequence = 0

\* C13: in the commit path, the contract created by a CallTx whose VM call
\* succeeded is readable through the block cache with the code the VM
\* returned; and a CallTx to an address that the block cache shows with
\* code runs the VM instead of ending in the "no code" outcome.
C13_CreatedContractCallable ==
  /\ (runCall /\ AcceptedOf("CallTx") /\ last.tx.callee = 0 /\ last.vmOK) =>
       LET c == CalleeAddr(last.tx, last.accounts) IN
       /\ GetAccount[c].exists
       /\ GetAccount[c].address = c
       /\ GetAccount[c].code = (IF last.tx.data = "" THEN 0 ELSE last.vm.ret)
  /\ (runCall /\ AcceptedOf("CallTx") /\ last.tx.callee # 0
        /\ last.accounts[last.tx.callee].exists
        /\ last.accounts[last.tx.callee].code # 0) =>
       /\ last.vmRan
       /\ eventCache[Len(eventCache)].event.exception # ErrTxInvalidAddress

\* A call to a contract created earlier in the same batch: the State does
\* not hold the contract yet, and the VM runs.
C13_Witness ==
  /\ runCall /\ AcceptedOf("CallTx")
  /\ last.prev = "Execute"
  /\ last.tx.callee \in ContractAddrs
  /\ ~stAccounts[last.tx.callee].exists
  /\ last.vmRan /\ last.vmOK

\* The inputs of the last transaction that name an account, with the
\* accounts as read before it.
KnownInputs == {i \in 1..Len(last.tx.inputs) :
                  /\ last.tx.inputs[i].address \in AllAddr
                  /\ last.accounts[last.tx.inputs[i].address].exists}
InputHas(i, perm) ==
  HasPermission(last.accounts, last.accounts[last.tx.inputs[i].address], perm)
    = "true"

\* Flag f is set neither in the mask of account a nor in the mask of the
\* global permissions account: the global permission is missing.
Unresolved(accounts, a, f) ==
  /\ f \notin accounts[a].permissions.setBit
  /\ f \notin accounts[GlobalPermissionsAddress].permissions.setBit

\* The permissions Execute checks for the last transaction.
NeededFlags ==
  CASE last.tx.type = "SendTx" -> {"Send", "CreateAccount"}
    [] last.tx.type = "CallTx" ->
         IF last.tx.callee = 0 THEN {"CreateContract"} ELSE {"Call"}
    [] last.tx.type = "NameTx" -> {"Name"}
    [] last.tx.type = "PermissionsTx" -> {last.tx.permArgs.permFlag}
    [] OTHER -> {}

\* The accounts of the last transaction that Execute loads.
LoadedAddrs ==
  {a \in (InputAddrs(last.tx)
            \cup {last.tx.outputs[i].address : i \in 1..Len(last.tx.outputs)})
           \cap AllAddr : last.accounts[a].exists}

\* The cases in which the process is meant to terminate: a global
\* permission is missing for a flag that Execute checks on an account of the
\* transaction, the flag of a PermissionsTx is none the dispatcher knows, or
\* the transaction is of a type that Execute has no case for.
FatalCase ==
  \/ last.tx.type \notin TxTypes
  \/ \E a \in LoadedAddrs : \E f \in NeededFlags : Unresolved(last.accounts, a, f)
  \/ /\ last.tx.type = "PermissionsTx"
     /\ last.tx.permArgs.permFlag \notin Mutators \cup {"HasBase", "HasRole"}

\* Execute did not accept the transaction: it returned an error, or the
\* process terminated in one of the fatal cases.
Refused == Executed /\ last.err # OK /\ (last.err = Panic => FatalCase)

\* C14: a SendTx is accepted only if every input account has the Send
\* permission, its own or the global one; when an input lacks it Execute
\* returns an error and no balance or sequence changes.
C14_SendNeedsPermission ==
  /\ AcceptedOf("SendTx") =>
       \A i \in 1..Len(last.tx.inputs) : InputHas(i, "Send")
  /\ (Executed /\ last.tx.type = "SendTx"
        /\ \E i \in KnownInputs : ~InputHas(i, "Send")) =>
       /\ Rejected
       /\ \A a \in AllAddr :
            /\ GetAccount[a].balance = last.accounts[a].balance
            /\ GetAccount[a].sequence = last.accounts[a].sequence

\* The outputs of the last transaction that name no existing account.
NewOutputs == {i \in 1..Len(last.tx.outputs) :
                 ~last.accounts[last.tx.outputs[i].address].exists}

StoredBit(p, f) == IF f \in p.perms THEN "true" ELSE "false"
\* The masks and bits a set of permissions may hold for one flag.
PermissionsFor(f) ==
  {[perms |-> ps, setBit |-> sb, roles |-> {}] : ps \in SUBSET {f}, sb \in SUBSET {f}}

\* C16: HasPermission(a, f) is a's stored bit for f when f is set in a's
\* mask, and otherwise the stored bit of the global permissions account read
\* through the same getter.  There is one fallback step at most: a flag set
\* in neither mask is not looked up any further (the process panics), also
\* when a is the global account itself.  The first conjunct is about the
\* accounts of every reachable state; the second, which depends on no
\* state, is about every mask and bit and is evaluated in the initial state.
C16_PermissionFallback ==
  /\ LET accounts == GetAccount
         global == accounts[GlobalPermissionsAddress].permissions
     IN \A a \in AllAddr : \A f \in AllPermFlags :
          accounts[a].exists =>
            LET own == accounts[a].permissions
                expected == IF f \in own.setBit THEN StoredBit(own, f)
                            ELSE IF f \in global.setBit THEN StoredBit(global, f)
                            ELSE Panic
            IN HasPermission(accounts, accounts[a], f) = expected
  /\ last.op = "Init" =>
     \A f \in AllPermFlags : \A own, global \in PermissionsFor(f) :
       LET getter == [a \in {GlobalPermissionsAddress} |-> [permissions |-> global]]
           acc == [permissions |-> own]
           expected == IF f \in own.setBit THEN StoredBit(own, f)
                       ELSE IF f \in global.setBit THEN StoredBit(global, f)
                       ELSE Panic
       IN /\ HasPermission(getter, acc, f) = expected
          /\ HasPermission(getter, getter[GlobalPermissionsAddress], f)
               = (IF f \in global.setBit THEN StoredBit(global, f) ELSE Panic)

\* A call refused because the caller has no Call bit of its own and the
\* global account's was cleared earlier in the batch.
C16_Witness ==
  /\ Rejected /\ last.tx.type = "CallTx"
  /\ last.err = ErrPermission
  /\ LET acc == last.accounts[last.tx.inputs[1].address] IN
     /\ acc.exists
     /\ "Call" \notin acc.permissions.setBit
  /\ "Call" \in last.accounts[GlobalPermissionsAddress].permissions.setBit
  /\ "Call" \notin last.accounts[GlobalPermissionsAddress].permissions.perms
  /\ "Call" \in stAccounts[GlobalPermissionsAddress].permissions.perms

\* The last operation was Execute of a NameTx; the entry of its name as read
\* before and after it, and the quantities Execute computes from it.
ExecutedName == Executed /\ last.tx.type = "NameTx" /\ last.tx.name \in Names
NameSender == last.tx.inputs[1].address
EntryBefore == last.names[last.tx.name]
EntryAfter == GetNameRegEntry[last.tx.name]
NameValue == last.tx.inputs[1].amount - last.tx.fee
NameExpiresIn ==
  NameValue \div NameCostPerBlock(NameBaseCost(last.tx.name, last.tx.data))
DeleteAsked == NameValue = 0 /\ last.tx.data = ""

\* The NameTx passes every check made before the registry is looked at.
NameInputPasses ==
  /\ NameSender \in AllAddr
  /\ last.accounts[NameSender].exists
  /\ hasNamePermission(last.accounts, last.accounts[NameSender]) = "true"
  /\ LET pk == checkInputPubKey(last.accounts[NameSender], last.tx.inputs[1]) IN
     /\ pk.err = OK
     /\ validateInput(pk.acc, pk.in) = OK
  /\ last.tx.inputs[1].amount >= last.tx.fee

C18_NewNameEntry ==
  (ExecutedName /\ ~EntryBefore.exists /\ Accepted) =>
    /\ NameExpiresIn >= MinNameRegistrationPeriod
    /\ EntryAfter = NameRegEntry(last.tx.name, NameSender, last.tx.data,
                                 height + NameExpiresIn)

\* A name registered with data, so that a block costs more than one unit.
C18_Witness ==
  /\ ExecutedName /\ ~EntryBefore.exists /\ Accepted
  /\ last.tx.data # ""
  /\ NameExpiresIn < NameValue
  /\ EntryAfter.exists

\* C19 as stated: every NameTx accepted on an expired entry has expires_in
\* >= MinNameRegistrationPeriod and leaves the entry with owner = input
\* address, data = tx.data and expires = last block height + expires_in.
C19_ExpiredAlwaysReclaimed ==
  (ExecutedName /\ EntryBefore.exists /\ EntryBefore.expires <= height
     /\ Accepted) =>
    /\ NameExpiresIn >= MinNameRegistrationPeriod
    /\ EntryAfter = NameRegEntry(last.tx.name, NameSender, last.tx.data,
                                 height + NameExpiresIn)

\* C19, amended: a NameTx accepted on an expired entry either has no value
\* and no data and removes the entry, or has expires_in >=
\* MinNameRegistrationPeriod and leaves the entry with owner = input address,
\* data = tx.data and expires = last block height + expires_in; in both
\* cases whoever the sender is.
C19_ExpiredReclaimedOrRemoved ==
  (ExecutedName /\ EntryBefore.exists /\ EntryBefore.expires <= height
     /\ Accepted) =>
    IF DeleteAsked THEN ~EntryAfter.exists
    ELSE /\ NameExpiresIn >= MinNameRegistrationPeriod
         /\ EntryAfter = NameRegEntry(last.tx.name, NameSender, last.tx.data,
                                      height + NameExpiresIn)

\* An expired entry is removed by an address that never owned it.
C19_Witness ==
  /\ ExecutedName /\ Accepted
  /\ EntryBefore.exists /\ EntryBefore.expires <= height
  /\ EntryBefore.owner # NameSender
  /\ DeleteAsked
  /\ ~EntryAfter.exists

\* C20: a NameTx from the owner of an entry that has not expired removes the
\* entry when its value is 0 and its data empty, so that the name is not
\* found afterwards in the batch; with any other value or data, when it is
\* accepted, the entry stays, with the data of the transaction.
C20_OwnerDeletesOrUpdates ==
  (ExecutedName /\ EntryBefore.exists /\ EntryBefore.expires > height
     /\ EntryBefore.owner = NameSender) =>
    /\ (DeleteAsked /\ NameInputPasses) => Accepted
    /\ Accepted =>
         IF DeleteAsked THEN ~EntryAfter.exists
         ELSE /\ EntryAfter.exists
              /\ EntryAfter.name = last.tx.name
              /\ EntryAfter.owner = NameSender
              /\ EntryAfter.data = last.tx.data
              /\ EntryAfter.expires >= height + MinNameRegistrationPeriod

\* The owner removes a live entry: the State still has it, the executor no
\* longer finds it.
C20_Witness ==
  /\ ExecutedName /\ Accepted
  /\ EntryBefore.exists /\ EntryBefore.expires > height
  /\ EntryBefore.owner = NameSender
  /\ DeleteAsked
  /\ ~EntryAfter.exists
  /\ stNames[last.tx.name].exists

\* The last NameTx came from the owner of an entry that has not expired.
OwnerOnLiveEntry ==
  /\ ExecutedName
  /\ EntryBefore.exists /\ EntryBefore.expires > height
  /\ EntryBefore.owner = NameSender

\* C21 as stated: a NameTx from the owner with value 0 and the data the
\* entry holds, at a height at which the entry has not expired, leaves the
\* entry in place with its expires unchanged; this holds in particular for
\* an entry registered at this height with any value v.
C21_ZeroExtensionKeepsExpires ==
  (OwnerOnLiveEntry /\ NameValue = 0 /\ last.tx.data = EntryBefore.data) =>
    /\ EntryAfter.exists
    /\ EntryAfter.expires = EntryBefore.expires

\* C21, amended: when the data is not empty, a NameTx from the owner with
\* value 0 and the data the entry holds leaves the entry's expires unchanged,
\* and it is accepted whenever its input passes validation and the blocks
\* left are at least MinNameRegistrationPeriod, as they are at the height of
\* the registration.
C21_ZeroExtensionWithDataKeepsExpires ==
  (OwnerOnLiveEntry /\ NameValue = 0 /\ last.tx.data = EntryBefore.data
     /\ last.tx.data # "") =>
    /\ EntryAfter.exists
    /\ EntryAfter.expires = EntryBefore.expires
    /\ EntryAfter.data = EntryBefore.data
    /\ (NameInputPasses
          /\ EntryBefore.expires - height >= MinNameRegistrationPeriod)
         => Accepted

\* A name registered with data and a value, and extended with value 0 by the
\* next transaction of the batch, at the same height.
C21_Witness ==
  /\ OwnerOnLiveEntry /\ Accepted
  /\ last.prev = "Execute"
  /\ ~stNames[last.tx.name].exists
  /\ NameValue = 0 /\ last.tx.data = EntryBefore.data /\ last.tx.data # ""
  /\ EntryAfter.expires = EntryBefore.expires
  /\ EntryAfter.expires >= height + MinNameRegistrationPeriod

\* A NameTx like the last one (same sender, name, data and fee) with the
\* given sequence and value.
ExtendTx(sequence, value) ==
  NameTx(In(NameSender, value + last.tx.fee, sequence), last.tx.name,
         last.tx.data, last.tx.fee)

\* After an accepted extension with value v1 = NameValue: what Execute does
\* with a second extension of value v2 in the state the first one left, and
\* what it would have done with a single extension of value v1 + v2 in the
\* state the first one found.
SecondExtension(v2) ==
  executeNameTx(GetAccount, GetAccount, GetNameRegEntry, height,
                ExtendTx(last.accounts[NameSender].sequence + 2, v2))
SingleExtension(v2) ==
  executeNameTx(last.accounts, last.accounts, last.names, height,
                ExtendTx(last.accounts[NameSender].sequence + 1, NameValue + v2))

\* The entry of the name once the writes of result r are made over `before`.
EntryLeftBy(r, before) ==
  IF r.names = <<>> THEN before ELSE r.names[Len(r.names)].entry

LastCostPerBlock == NameCostPerBlock(NameBaseCost(last.tx.name, last.tx.data))

\* The two-step and the single-step extension agree on expires when both
\* values are multiples of cost_per_block, and otherwise the two-step
\* expires is not the larger one.
ExtensionsAgree(v2) ==
  LET two == EntryLeftBy(SecondExtension(v2), EntryAfter)
      one == EntryLeftBy(SingleExtension(v2), EntryBefore)
  IN IF NameValue % LastCostPerBlock = 0 /\ v2 % LastCostPerBlock = 0
     THEN two.exists /\ one.exists /\ two.expires = one.expires
     ELSE two.exists /\ one.exists /\ two.expires <= one.expires

\* C22 as stated: for an entry that has not expired, at a fixed height and
\* with fixed data, two accepted extensions by the owner with values v1 and
\* v2 give the expires of the single extension with v1 + v2 when v1 and v2
\* are multiples of cost_per_block, and never a larger one otherwise.
C22_TwoExtensionsAsOne ==
  (OwnerOnLiveEntry /\ Accepted) =>
    \A v2 \in 0..MaxExtension :
      (SecondExtension(v2).err = OK /\ SingleExtension(v2).err = OK)
        => ExtensionsAgree(v2)

\* C22, amended: the same, for extensions of which neither is a removal
\* request (value 0 with empty data); and the single extension is accepted
\* whenever the two are.
C22_TwoUpdatesAsOne ==
  (OwnerOnLiveEntry /\ Accepted /\ ~DeleteAsked) =>
    \A v2 \in 0..MaxExtension :
      (SecondExtension(v2).err = OK /\ ~(v2 = 0 /\ last.tx.data = ""))
        => /\ SingleExtension(v2).err = OK
           /\ ExtensionsAgree(v2)

\* An extension whose value is not a multiple of cost_per_block, after which
\* a second one gives an earlier expires than the single extension would.
C22_Witness ==
  /\ OwnerOnLiveEntry /\ Accepted /\ ~DeleteAsked
  /\ NameValue % LastCostPerBlock # 0
  /\ \E v2 \in 1..MaxExtension :
       /\ SecondExtension(v2).err = OK
       /\ SingleExtension(v2).err = OK
       /\ EntryLeftBy(SecondExtension(v2), EntryAfter).expires
            < EntryLeftBy(SingleExtension(v2), EntryBefore).expires
  /\ \E v2 \in 1..MaxExtension :
       /\ SecondExtension(v2).err = OK
       /\ EntryLeftBy(SecondExtension(v2), EntryAfter).expires
            = EntryLeftBy(SingleExtension(v2), EntryBefore).expires

\* C23 as stated: every entry readable through the block cache has expires >
\* last block height or was written in the current batch.
C23_NoExpiredEntryReadable ==
  \A n \in Names :
    GetNameRegEntry[n].exists =>
      \/ GetNameRegEntry[n].expires > height
      \/ bcNames[n].cached

\* C23, amended: an entry written by an accepted NameTx has expires >= last
\* block height + MinNameRegistrationPeriod, so it has not expired when it is
\* written; no entry is dropped when the height reaches its expires: the
\* entries read through the block cache change only by an accepted NameTx,
\* which changes the entry of its own name, and by a Reset, which brings
\* back the entries of the State.
C23_ExpiredStaysUntilNameTx ==
  /\ (ExecutedName /\ Accepted /\ EntryAfter.exists) =>
       EntryAfter.expires >= height + MinNameRegistrationPeriod
  /\ (ExecutedName /\ Accepted) =>
       \A n \in Names \ {last.tx.name} : GetNameRegEntry[n] = last.names[n]
  /\ (Executed /\ ~(ExecutedName /\ Accepted)) => GetNameRegEntry = last.names
  /\ last.op \in {"NextBlock", "Commit", "RemoveAccount", "UpdateAccount",
                 "SetStorage"} =>
       GetNameRegEntry = last.names
  /\ last.op = "Reset" => GetNameRegEntry = last.state[3]

\* The height has reached the expires of an entry of the State, and the
\* entry is still read through the block cache.
C23_Witness ==
  /\ last.op = "NextBlock"
  /\ \E n \in Names :
       /\ ~bcNames[n].cached
       /\ GetNameRegEntry[n].exists
       /\ GetNameRegEntry[n].expires <= height
       /\ last.names[n] = GetNameRegEntry[n]

\* The last operation was Execute of a PermissionsTx; its sender, the
\* account whose permissions it asks to change, and whether permissions p
\* show the change it asks for.
ExecutedPerm == Executed /\ last.tx.type = "PermissionsTx"
PermSender == last.tx.inputs[1].address
PermTarget ==
  IF last.tx.permArgs.permFlag = "SetGlobal" THEN GlobalPermissionsAddress
  ELSE last.tx.permArgs.address
Mutated(p) ==
  LET args == last.tx.permArgs IN
  CASE args.permFlag \in {"SetBase", "SetGlobal"} ->
         /\ args.permission \in p.setBit
         /\ (args.permission \in p.perms) = args.value
    [] args.permFlag = "UnsetBase" -> args.permission \notin p.setBit
    [] args.permFlag = "AddRole" -> args.role \in p.roles
    [] args.permFlag = "RemoveRole" -> args.role \notin p.roles
    [] OTHER -> FALSE

\* C24: after an accepted PermissionsTx, whatever its target, the block
\* cache holds the input account with its sequence advanced by one and its
\* balance lowered by the input amount, and the target account (the global
\* one for SetGlobal) with the mutation asked for.
C24_PermissionsTxBothEffects ==
  (ExecutedPerm /\ Accepted) =>
    /\ GetAccount[PermSender].sequence = last.accounts[PermSender].sequence + 1
    /\ GetAccount[PermSender].balance
         = last.accounts[PermSender].balance - last.tx.inputs[1].amount
    /\ GetAccount[PermTarget].exists
    /\ Mutated(GetAccount[PermTarget].permissions)

\* Account a holds flag f among `accounts`: its own bit when the flag is in
\* its mask, and otherwise the bit of the global permissions account.
HoldsFlag(accounts, a, f) ==
  LET own == accounts[a].permissions
      global == accounts[GlobalPermissionsAddress].permissions
  IN IF f \in own.setBit THEN f \in own.perms
     ELSE f \in global.setBit /\ f \in global.perms

PermInputPasses ==
  /\ PermSender \in AllAddr
  /\ last.accounts[PermSender].exists
  /\ HoldsFlag(last.accounts, PermSender, last.tx.permArgs.permFlag)
  /\ LET pk == checkInputPubKey(last.accounts[PermSender], last.tx.inputs[1]) IN
     /\ pk.err = OK
     /\ validateInput(pk.acc, pk.in) = OK

\* The mutation asked for is one that the switch refuses: a query flag, a
\* role the target already has, or the removal of a role it has not.
RefusedMutation ==
  LET args == last.tx.permArgs IN
  \/ args.permFlag \in {"HasBase", "HasRole"}
  \/ /\ args.permFlag = "AddRole"
     /\ last.accounts[args.address].exists
     /\ args.role \in last.accounts[args.address].permissions.roles
  \/ /\ args.permFlag = "RemoveRole"
     /\ last.accounts[args.address].exists
     /\ args.role \notin last.accounts[args.address].permissions.roles

BaseOf(p) == [perms |-> p.perms, setBit |-> p.setBit]

\* C27: in the commit path the contract created by a CallTx has the base
\* permissions of the global permissions account as the block cache shows it
\* when the CallTx is executed, a SetGlobal of an earlier PermissionsTx of
\* the batch included.
C27_NewContractGetsCachedGlobalPermissions ==
  (runCall /\ AcceptedOf("CallTx") /\ last.tx.callee = 0 /\ last.vmOK) =>
    LET c == CalleeAddr(last.tx, last.accounts) IN
    /\ GetAccount[c].exists
    /\ BaseOf(GetAccount[c].permissions)
         = BaseOf(last.accounts[GlobalPermissionsAddress].permissions)

\* The last operation was Execute of a CallTx; its caller, and whether it
\* passes the checks made on the input before the callee is looked at.
ExecutedCall == Executed /\ last.tx.type = "CallTx"
Caller == last.tx.inputs[1].address
CallInputPasses ==
  /\ Caller \in AllAddr
  /\ last.accounts[Caller].exists
  /\ HoldsFlag(last.accounts, Caller,
               IF last.tx.callee = 0 THEN "CreateContract" ELSE "Call")
  /\ LET pk == checkInputPubKey(last.accounts[Caller], last.tx.inputs[1]) IN
     /\ pk.err = OK
     /\ validateInput(pk.acc, pk.in) = OK
  /\ last.tx.inputs[1].amount >= last.tx.fee

CalleeWithoutCode ==
  /\ last.tx.callee \in AllAddr \ (NativeContracts \cup {0})
  /\ \/ ~last.accounts[last.tx.callee].exists
     \/ last.accounts[last.tx.callee].code = 0

\* C29: in the commit path a CallTx with a valid input to a callee that has
\* no account or no code is accepted without a run of the VM: the caller's
\* balance falls by the fee and its sequence rises by one, no other account
\* and no storage slot changes, and the two events fired, AccInput for the
\* caller and AccOutput for the callee, carry the InvalidAddress error text
\* as their exception.
C29_CallToNoCodeTakesFee ==
  (runCall /\ ExecutedCall /\ CalleeWithoutCode /\ CallInputPasses) =>
    /\ last.err = OK
    /\ ~last.vmRan
    /\ GetAccount[Caller].balance = last.accounts[Caller].balance - last.tx.fee
    /\ GetAccount[Caller].sequence = last.accounts[Caller].sequence + 1
    /\ \A a \in AllAddr \ {Caller} : GetAccount[a] = last.accounts[a]
    /\ GetStorage = last.storage
    /\ Len(eventCache) = Len(last.events) + 2
    /\ SubSeq(eventCache, 1, Len(last.events)) = last.events
    /\ LET input == eventCache[Len(last.events) + 1].event
           output == eventCache[Len(last.events) + 2].event
       IN /\ input.kind = "AccInput" /\ input.addr = Caller
          /\ input.exception = ErrTxInvalidAddress
          /\ output.kind = "AccOutput" /\ output.addr = last.tx.callee
          /\ output.exception = ErrTxInvalidAddress

\* A call that carries a value to an address without an account: the value
\* stays with the caller and no account is created.
C29_Witness ==
  /\ runCall /\ ExecutedCall /\ Accepted
  /\ CalleeWithoutCode /\ CallInputPasses
  /\ ~last.accounts[last.tx.callee].exists
  /\ last.tx.inputs[1].amount > last.tx.fee
  /\ ~GetAccount[last.tx.callee].exists
  /\ ~last.vmRan

\* C30: on a checker (runCall = FALSE) a CallTx with a valid input, to an
\* address that is not a native contract or creating a contract, is accepted
\* without a run of the VM and changes no account but the caller's, no
\* storage slot and no contract: the caller's balance falls by fee + value =
\* input.amount and its sequence rises by one for a call to an address and
\* by two for a creation.
C30_CheckPathDebitsCaller ==
  /\ (~runCall /\ ExecutedCall /\ CallInputPasses
        /\ last.tx.callee \notin NativeContracts) => last.err = OK
  /\ (~runCall /\ ExecutedCall) => ~last.vmRan
  /\ (~runCall /\ ExecutedCall /\ Accepted) =>
       /\ GetAccount[Caller].balance
            = last.accounts[Caller].balance - last.tx.inputs[1].amount
       /\ GetAccount[Caller].sequence
            = last.accounts[Caller].sequence
                + (IF last.tx.callee = 0 THEN 2 ELSE 1)
       /\ \A a \in AllAddr \ {Caller} : GetAccount[a] = last.accounts[a]
       /\ GetStorage = last.storage

\* A checker accepts a contract creation that carries a value: the caller
\* pays fee and value, its sequence advances by two, no contract appears.
C30_Witness ==
  /\ ~runCall /\ ExecutedCall /\ Accepted
  /\ last.tx.callee = 0
  /\ last.tx.inputs[1].amount > last.tx.fee
  /\ last.tx.fee > 0
  /\ GetAccount[Caller].sequence = last.accounts[Caller].sequence + 2
  /\ ~GetAccount[CalleeAddr(last.tx, last.accounts)].exists

\* ------------------------------------------------------------------------
\* Check path and commit path compared
\* ------------------------------------------------------------------------

\* The accounts an executor reads after the writes of one Execute.
Written(accounts, writes) ==
  [a \in AllAddr |->
     IF \E i \in 1..Len(writes) : writes[i].address = a
     THEN writes[CHOOSE i \in 1..Len(writes) :
                   /\ writes[i].address = a
                   /\ \A j \in 1..Len(writes) : writes[j].address = a => j <= i]
     ELSE accounts[a]]

\* The last transaction, executed from the state it found by the executor of
\* the other kind (a checker for a committer, a committer for a checker).
OnOtherPath(vm) ==
  ExecuteTxOn(~runCall, last.accounts, stAccounts, last.names, height,
              last.tx, vm)

\* C31: from the same state a SendTx is accepted by a checker iff it is
\* accepted by a committer, both leave the same accounts in the block cache,
\* and an accepted SendTx advances each input's sequence by exactly one.
C31_SendTxSameOnBothPaths ==
  (Executed /\ last.tx.type = "SendTx") =>
    /\ OnOtherPath(last.vm).err = last.err
    /\ Written(last.accounts, OnOtherPath(last.vm).accounts) = GetAccount
    /\ Accepted =>
         \A a \in InputAddrs(last.tx) :
           GetAccount[a].sequence = last.accounts[a].sequence + 1

C31_SendTxAcceptedOnChecker ==
  /\ AcceptedOf("SendTx")
  /\ ~runCall
  /\ OnOtherPath(last.vm).err = OK
  /\ GetAccount # last.accounts
  /\ \E i \in 1..Len(last.tx.outputs) :
       ~last.accounts[last.tx.outputs[i].address].exists

\* C32: for a contract-creating CallTx that passes validation, the caller's
\* sequence in the block cache after Execute is the same on a checker and on
\* a committer, whether the VM call succeeds or fails.
C32_CreationSequenceSameOnBothPaths ==
  (ExecutedCall /\ last.tx.callee = 0 /\ CallInputPasses /\ runCall) =>
    /\ OnOtherPath(NoVM).err = last.err
    /\ Written(last.accounts, OnOtherPath(NoVM).accounts)[Caller].sequence
         = GetAccount[Caller].sequence

\* ------------------------------------------------------------------------
\* Input validation
\* ------------------------------------------------------------------------

\* Accounts and inputs for address 1 over which validateInput and
\* checkInputPubKey are evaluated on their own.
SampleAccounts ==
  {ConcreteAccount(1, bal, seq, key, 0, ZeroAccountPermissions) :
     bal \in {0, 1, MaxU}, seq \in {0, 1, 2, MaxU}, key \in {NoKey, KeyOf(1)}}
SampleInputs ==
  {TxInput(1, amount, seq, sig, key) :
     amount \in {0, 1, 2, MaxU}, seq \in 0..3, sig \in {"ok", "bad", "empty"},
     key \in {NoKey, KeyOf(1), KeyOf(2)}}

\* The sequence after s, in the unsigned arithmetic of the sequences.
NextSequence(s) == (s + 1) % Mod

\* The single input of the last transaction is signed by its account's key,
\* carries a wrong sequence and an amount above the balance.
WrongSequenceAndPoor ==
  /\ Executed /\ Len(last.tx.inputs) = 1
  /\ LET in == last.tx.inputs[1] IN
     /\ in.address \in AllAddr
     /\ last.accounts[in.address].exists
     /\ LET pk == checkInputPubKey(last.accounts[in.address], in) IN
        /\ pk.err = OK
        /\ InputValidateBasic(pk.in) = OK
        /\ VerifyBytes(pk.acc.pubKey, pk.in)
        /\ in.sequence # NextSequence(pk.acc.sequence)
        /\ in.amount > pk.acc.balance

\* C33: validateInput checks basic validity, signature, sequence and balance
\* in that order and returns the first failure: a signed input with a wrong
\* sequence and an amount above the balance yields InvalidSequence with
\* Got = input.sequence and Expected = account.sequence + 1, never
\* InsufficientFunds; an input is accepted only if input.sequence =
\* account.sequence + 1 and account.balance >= input.amount.  The sum
\* account.sequence + 1 is an unsigned one: after the largest sequence comes
\* 0.  The first conjunct, which depends on no state, is evaluated in the
\* initial state; the others are about every Execute.
C33_ValidateInputOrder ==
  /\ last.op = "Init" =>
       \A acc \in SampleAccounts : \A in \in SampleInputs :
         LET err == validateInput(acc, in)
             basic == InputValidateBasic(in)
             signed == VerifyBytes(acc.pubKey, in)
             next == NextSequence(acc.sequence)
         IN /\ basic # OK => err = basic
            /\ (basic = OK /\ ~signed) => err = ErrTxInvalidSignature
            /\ (basic = OK /\ signed /\ in.sequence # next) =>
                 /\ err = ErrTxInvalidSequence
                 /\ ErrTxInvalidSequenceFields(acc, in).Got = in.sequence
                 /\ ErrTxInvalidSequenceFields(acc, in).Expected = next
            /\ (basic = OK /\ signed /\ in.sequence = next
                  /\ acc.balance < in.amount) => err = ErrTxInsufficientFunds
            /\ err = OK <=>
                 (basic = OK /\ signed /\ in.sequence = next
                    /\ acc.balance >= in.amount)
  /\ WrongSequenceAndPoor =>
       /\ last.err \notin {OK, ErrTxInsufficientFunds}
       /\ (last.tx.type = "SendTx"
             /\ HoldsFlag(last.accounts, last.tx.inputs[1].address, "Send")
             /\ \A i \in 1..Len(last.tx.outputs) :
                  /\ last.tx.outputs[i].address \in AllAddr
                  /\ last.accounts[last.tx.outputs[i].address].exists
                  /\ last.tx.outputs[i].address # last.tx.inputs[1].address
                  /\ \A j \in 1..Len(last.tx.outputs) :
                       last.tx.outputs[j].address = last.tx.outputs[i].address
                         => j = i)
            => last.err = ErrTxInvalidSequence
  /\ Accepted =>
       \A i \in 1..Len(last.tx.inputs) :
         /\ last.tx.inputs[i].sequence
              = NextSequence(last.accounts[last.tx.inputs[i].address].sequence)
         /\ last.accounts[last.tx.inputs[i].address].balance
              >= last.tx.inputs[i].amount

C33_InvalidSequenceBeforeFunds ==
  /\ WrongSequenceAndPoor
  /\ last.tx.type = "SendTx"
  /\ last.err = ErrTxInvalidSequence
  /\ GetAccount = last.accounts

\* ------------------------------------------------------------------------
\* Repeated addresses
\* ------------------------------------------------------------------------

RepeatedInput ==
  \E i, j \in 1..Len(last.tx.inputs) :
    i < j /\ last.tx.inputs[i].address = last.tx.inputs[j].address
RepeatedOutput ==
  \E i, j \in 1..Len(last.tx.outputs) :
    i < j /\ last.tx.outputs[i].address = last.tx.outputs[j].address
InputIsOutput ==
  \E i \in 1..Len(last.tx.inputs) : \E j \in 1..Len(last.tx.outputs) :
    last.tx.inputs[i].address = last.tx.outputs[j].address

\* Every input names an account whose public key is known or rightly given.
InputsLoad ==
  \A i \in 1..Len(last.tx.inputs) :
    /\ i \in KnownInputs
    /\ checkInputPubKey(last.accounts[last.tx.inputs[i].address],
                        last.tx.inputs[i]).err = OK
\* No permission check stops the SendTx before its outputs are all loaded.
OutputsLoad ==
  /\ \A i \in 1..Len(last.tx.inputs) :
       HoldsFlag(last.accounts, last.tx.inputs[i].address, "Send")
  /\ \/ \A j \in 1..Len(last.tx.outputs) :
          /\ last.tx.outputs[j].address \in AllAddr
          /\ last.accounts[last.tx.outputs[j].address].exists
     \/ \A i \in 1..Len(last.tx.inputs) :
          HoldsFlag(last.accounts, last.tx.inputs[i].address, "CreateAccount")

\* C34: a SendTx in which an address appears twice among the inputs, twice
\* among the outputs, or as an input and as an output is rejected with an
\* error and changes no account; the error is DuplicateAddress when the
\* accounts before the repeated address load and pass the permission
\* checks; so the input and output addresses of every accepted SendTx are
\* pairwise distinct.
C34_RepeatedAddressRejected ==
  /\ (Executed /\ last.tx.type = "SendTx"
        /\ (RepeatedInput \/ RepeatedOutput \/ InputIsOutput)) =>
       /\ Rejected
       /\ GetAccount = last.accounts
       /\ (InputsLoad /\ (RepeatedInput \/ OutputsLoad)) =>
            last.err = ErrTxDuplicateAddress
  /\ AcceptedOf("SendTx") =>
       ~(RepeatedInput \/ RepeatedOutput \/ InputIsOutput)

\* ------------------------------------------------------------------------
\* Public-key binding
\* ------------------------------------------------------------------------

\* checkInputPubKey on an account and an input: the errors for an account
\* without a key, the key bound on success, the key kept and the input's key
\* dropped for an account that has one, and, after a key is bound, the
\* input's pubkey field as given (keptAfterBinding) or empty.
PubKeyBinding(acc, in, keptAfterBinding) ==
  LET r == checkInputPubKey(acc, in) IN
  /\ (acc.pubKey = NoKey /\ in.pubKey = NoKey) =>
       r.err = ErrTxUnknownPubKey /\ r.acc = acc
  /\ (acc.pubKey = NoKey /\ in.pubKey # NoKey
        /\ PubKeyAddress(in.pubKey) # acc.address) =>
       r.err = ErrTxInvalidPubKey /\ r.acc = acc
  /\ (acc.pubKey = NoKey /\ in.pubKey # NoKey
        /\ PubKeyAddress(in.pubKey) = acc.address) =>
       /\ r.err = OK
       /\ r.acc = [acc EXCEPT !.pubKey = in.pubKey]
       /\ r.in.pubKey = (IF keptAfterBinding THEN in.pubKey ELSE NoKey)
  /\ acc.pubKey # NoKey =>
       /\ r.err = OK
       /\ r.acc = acc
       /\ r.in = [in EXCEPT !.pubKey = NoKey]

\* What Execute shows of the binding: the error of a SendTx whose single
\* input names an account without a key, and the key of every input account
\* after an accepted transaction.
PubKeyBindingOnExecute ==
  /\ (Executed /\ last.tx.type = "SendTx" /\ Len(last.tx.inputs) = 1
        /\ 1 \in KnownInputs
        /\ last.accounts[last.tx.inputs[1].address].pubKey = NoKey) =>
       LET in == last.tx.inputs[1] IN
       /\ in.pubKey = NoKey => last.err = ErrTxUnknownPubKey
       /\ (in.pubKey # NoKey /\ PubKeyAddress(in.pubKey) # in.address) =>
            last.err = ErrTxInvalidPubKey
  /\ Accepted =>
       \A i \in 1..Len(last.tx.inputs) :
         LET a == last.tx.inputs[i].address IN
         GetAccount[a].pubKey
           = (IF last.accounts[a].pubKey = NoKey THEN last.tx.inputs[i].pubKey
              ELSE last.accounts[a].pubKey)

\* C35 (as the code has it): for an account with no public key,
\* checkInputPubKey fails with UnknownPubKey when the input carries no key
\* and with InvalidPubKey when the carried key's address is not the
\* account's; on success the account holds that key and the input still
\* carries it.  For an account that has a key, the key is unchanged and the
\* input's pubkey field is empty afterwards.  The first conjunct, which
\* depends on no state, is evaluated in the initial state.
C35_PubKeyBoundInputKept ==
  /\ last.op = "Init" =>
       \A acc \in SampleAccounts : \A in \in SampleInputs :
         PubKeyBinding(acc, in, TRUE)
  /\ PubKeyBindingOnExecute

\* C35 (as stated): the same, with the input's pubkey field empty after a
\* key is bound.
C35_PubKeyBoundInputCleared ==
  /\ last.op = "Init" =>
       \A acc \in SampleAccounts : \A in \in SampleInputs :
         PubKeyBinding(acc, in, FALSE)
  /\ PubKeyBindingOnExecute

\* An account without a key has sent a transaction that carried its key.
C35_Witness ==
  /\ Accepted
  /\ \E i \in 1..Len(last.tx.inputs) :
       LET a == last.tx.inputs[i].address IN
       /\ last.accounts[a].pubKey = NoKey
       /\ GetAccount[a].pubKey = last.tx.inputs[i].pubKey
       /\ checkInputPubKey(last.accounts[a], last.tx.inputs[i]).in.pubKey
            = KeyOf(a)

\* ------------------------------------------------------------------------
\* The order of the steps of Commit
\* ------------------------------------------------------------------------

\* The State holds every entry of the block cache.
Synced ==
  /\ stAccounts = SyncAccounts(stAccounts, bcAccounts)
  /\ stStorage = SyncStorage(stStorage, bcStorage)
  /\ stNames = SyncNames(stNames, bcNames)
\* The State as it is has been saved.
Saved == saved = StateHash(stAccounts, stStorage, stNames)

\* A step changes the State only as the sync of a Commit, the saved State
\* only as the save that follows it, and the sink only as the flush that
\* follows the save.
CommitStepsInOrder ==
  /\ (<<stAccounts, stStorage, stNames>>' # <<stAccounts, stStorage, stNames>>) =>
       /\ \E t \in Threads : pc[t] = "sync" /\ pc'[t] = "save"
       /\ saved' = saved
       /\ sink' = sink
  /\ (saved' # saved) =>
       /\ \E t \in Threads : pc[t] = "save" /\ pc'[t] = "flush"
       /\ Synced
       /\ Saved'
       /\ sink' = sink
  /\ (sink' # sink) =>
       /\ \E t \in Threads : pc[t] = "flush" /\ pc'[t] = "unlock"
       /\ Synced
       /\ Saved
       /\ saved' = saved
       /\ sink' = sink \o eventCache

\* C36: Commit syncs the block cache into the State, then saves the State,
\* then flushes the events, then returns the hash: the State changes only
\* in the sync, before the save and the flush; the save stores the synced
\* State and delivers nothing; and whenever events are delivered to the
\* sink the batch's accounts, storage and names are in the State and the
\* State is saved.
C36_CommitOrder ==
  /\ [](\A t \in Threads :
         /\ pc[t] \in {"save", "flush", "unlock"} => Synced
         /\ pc[t] \in {"flush", "unlock"} => Saved)
  /\ [][CommitStepsInOrder]_vars

\* The events of a batch have been delivered, after its changes were saved.
C36_Witness ==
  /\ pc[1] = "unlock"
  /\ sink # <<>>
  /\ Synced /\ Saved
  /\ saved # StateHash(GenesisAccounts, GenesisStorage, GenesisNames)

\* ------------------------------------------------------------------------
\* Failures of the store
\* ------------------------------------------------------------------------

\* C37: when the backing store fails while Commit syncs the block cache or
\* saves the State, Commit returns a non-nil error; when a write to the
\* block cache fails during Execute, Execute returns an error.
C37_StoreFailureReported ==
  last.op \in {"CommitStoreFailed", "ExecuteWriteFailed"} => last.err # OK

\* ------------------------------------------------------------------------
\* Replay protection
\* ------------------------------------------------------------------------

\* The last transaction executed once more, now and after a Commit.
ReplayRejected ==
  \A vm \in VMChoices(last.tx) :
    /\ ExecuteTx(last.tx, vm).err # OK
    /\ ExecuteTxOn(runCall, GetAccount, SyncAccounts(stAccounts, bcAccounts),
                   GetNameRegEntry, height, last.tx, vm).err # OK

\* C38: after Execute accepts a transaction, the same transaction executed
\* again on the same executor, with or without a Commit in between, is
\* rejected, because the sequence of every input account in the block cache
\* is greater than it was before the first execution; for all four
\* families.
C38_ReplayProtection ==
  Accepted =>
    /\ \A a \in InputAddrs(last.tx) :
         GetAccount[a].sequence > last.accounts[a].sequence
    /\ ReplayRejected

\* ------------------------------------------------------------------------
\* Balances do not underflow
\* ------------------------------------------------------------------------

\* C39: every subtraction from a balance is applied to a balance at least as
\* large as the amount subtracted.  For each input of an accepted
\* transaction of any family, on a checker and on a committer: the amount
\* is within the balance the account had, the fee is within the amount, and
\* the balance afterwards is the old balance less a debit between 0 and the
\* amount, so it has not wrapped below zero.  The panic by which
\* adjustByInputs guards a debit is never reached: an Execute panics in the
\* fatal cases only.
C39_NoBalanceUnderflow ==
  /\ Fatal => FatalCase
  /\ Accepted =>
       \A i \in 1..Len(last.tx.inputs) :
         LET a == last.tx.inputs[i].address
             before == last.accounts[a].balance
             after == GetAccount[a].balance
         IN /\ last.tx.inputs[i].amount <= before
            /\ last.tx.fee <= last.tx.inputs[i].amount
            /\ after <= before
            /\ before - after <= last.tx.inputs[i].amount
            /\ last.tx.type \in {"CallTx", "NameTx"} =>
                 before - after >= (IF last.tx.type = "CallTx" THEN last.tx.fee ELSE 0)

\* An input that takes the whole balance of its account.
C39_Witness ==
  /\ Accepted
  /\ \E i \in 1..Len(last.tx.inputs) :
       LET a == last.tx.inputs[i].address IN
       /\ last.tx.inputs[i].amount = last.accounts[a].balance
       /\ GetAccount[a].balance = 0

\* ------------------------------------------------------------------------
\* Batches under concurrent use
\* ------------------------------------------------------------------------

\* The transactions whose input event for account a has been delivered.
DeliveredInputs(a) ==
  {sink[i].tag : i \in {j \in 1..Len(sink) :
                          /\ sink[j].event.kind = "AccInput"
                          /\ sink[j].event.addr = a}}

\* No Commit is between its sync and its flush.
BetweenCommits == \A t \in Threads : pc[t] \notin {"sync", "save", "flush"}

\* C40: for any interleaving of Execute on one thread with Commit or Reset
\* on another, a Commit delivers a transaction's events only if it has also
\* saved the transaction's changes, and saves no changes without flushing
\* their events.  Each accepted transaction of the threads advances its
\* input account's sequence by one and fires one input event for it, so
\* between Commits the saved State has, for every account, as many sequence
\* steps as there are transactions whose input event is in the sink.
C40_EventsAndStateTogether ==
  BetweenCommits =>
    \A a \in Users :
      Cardinality(DeliveredInputs(a))
        = saved[1][a].sequence - GenesisAccounts[a].sequence
====
